---- MODULE Spec2Model ----
(***************************************************************************)
(* Model of the HireIQ career-assistant backend (python-backend):          *)
(* the ten-stage LangGraph pipeline of CareerAssistantAgent.analyze(),     *)
(* the state graph that threads CareerAssistantState through the stages,   *)
(* and the heuristic text functions the stages call.                       *)
(*                                                                         *)
(* A Python str is a sequence of one-character strings, so that lower(),   *)
(* `in`, replace() and the regular expressions act on characters.  A dict  *)
(* is a function on its keys, a list is a sequence.                        *)
(***************************************************************************)
EXTENDS Integers, Sequences, FiniteSets, TLC

VARIABLES
    hashOrder,   \* iteration order of the str sets of this process (hash seed)
    aiMenu,      \* the kinds of AI behaviour the environment shows in this behaviour
    request,     \* request[r]: the (resume_text, job_description) of call r, if any
    state,       \* state[o]: the channel values of state object o
    pc,          \* pc[r]: "idle", "ready", "running", "done" or "aborted"
    node,        \* node[r]: the graph node run r is at
    local,       \* local[r]: the state dict handed to the node that is running
    started,     \* started[r]: the nodes run r has started, in order
    failed,      \* failed[r]: the nodes of run r that took their except branch
    aiLog,       \* aiLog[r]: the AI responses run r has received, in order
    report,      \* report[r]: what analyze() returned
    atsIn,       \* the state dict of a direct call of _calculate_ats_score
    atsOut,      \* the result of that call
    callIn,      \* a direct call of another function of the agent: [fn, arg]
    callOut      \* the result of that call

vars == <<hashOrder, aiMenu, request, state, pc, node, local, started, failed,
          aiLog, report, atsIn, atsOut, callIn, callOut>>

pipelineVars == <<hashOrder, aiMenu, request, state, pc, node, local, started,
                  failed, aiLog, report>>

(***************************************************************************)
(* Bounds                                                                  *)
(***************************************************************************)
\* longest job keyword list drawn for a direct call of the score
MaxKeywords == 3
\* longest job skill list drawn for a direct call of the score
MaxSkills == 3
\* most words of a resume text drawn for a direct call of the repetition stage
MaxTokens == 6
\* most lemma names the lexical lookup returns for a word
MaxLemmas == 3
\* the entries of a section of a parsed resume
MaxEntries == 22
\* the achievements of a project of a parsed resume
MaxHighlights == 4
\* the pieces of a text drawn for a direct call of the cleaning functions
MaxPieces == 3
\* most candidates of a batch request
MaxCandidates == 6
\* the longest list of missing skills handed to stage 7
MaxMissing == 6
\* the most lines of a resume text handed to the fallback parse
MaxLines == 5

(***************************************************************************)
(* Python values                                                           *)
(***************************************************************************)
\* upper-case letter -> lower-case letter
ToLower ==
    [A |-> "a", B |-> "b", C |-> "c", D |-> "d", E |-> "e", F |-> "f",
     G |-> "g", H |-> "h", I |-> "i", J |-> "j", K |-> "k", L |-> "l",
     M |-> "m", N |-> "n", O |-> "o", P |-> "p", Q |-> "q", R |-> "r",
     S |-> "s", T |-> "t", U |-> "u", V |-> "v", W |-> "w", X |-> "x",
     Y |-> "y", Z |-> "z"]
\* lower-case letter -> upper-case letter
ToUpper ==
    [a |-> "A", b |-> "B", c |-> "C", d |-> "D", e |-> "E", f |-> "F",
     g |-> "G", h |-> "H", i |-> "I", j |-> "J", k |-> "K", l |-> "L",
     m |-> "M", n |-> "N", o |-> "O", p |-> "P", q |-> "Q", r |-> "R",
     s |-> "S", t |-> "T", u |-> "U", v |-> "V", w |-> "W", x |-> "X",
     y |-> "Y", z |-> "Z"]
Digits == {"0","1","2","3","4","5","6","7","8","9"}

IsUpper(c) == c \in DOMAIN ToLower
IsLower(c) == c \in DOMAIN ToUpper
IsLetter(c) == IsUpper(c) \/ IsLower(c)
\* \w of the re module
IsWordChar(c) == IsLetter(c) \/ c \in Digits \/ c = "_"

LowerChar(c) == IF IsUpper(c) THEN ToLower[c] ELSE c
UpperChar(c) == IF IsLower(c) THEN ToUpper[c] ELSE c

\* a list entry that is not a str (a JSON number)
NonString == <<"<number>">>
IsString(x) == x # NonString
AllStrings(xs) == \A i \in 1..Len(xs) : IsString(xs[i])

\* str.lower()
Lower(s) == SubSeq([i \in 1..Len(s) |-> LowerChar(s[i])], 1, Len(s))

\* str.title(): a letter after a non-letter is upper-cased, the others lower-cased
Title(s) ==
    SubSeq([i \in 1..Len(s) |->
               IF i = 1 \/ ~IsLetter(s[i - 1]) THEN UpperChar(s[i]) ELSE LowerChar(s[i])],
           1, Len(s))

\* `a in b` for two str values
IsSubstring(a, b) ==
    \E i \in 1..(Len(b) - Len(a) + 1) : \A k \in 1..Len(a) : b[i + k - 1] = a[k]

\* `x in xs` for a list xs
InList(x, xs) == \E i \in 1..Len(xs) : xs[i] = x

\* s.replace(c, '') for a one-character c
RemoveChar(s, c) == SelectSeq(s, LAMBDA x : x # c)

\* xs[:n]
Take(xs, n) == SubSeq(xs, 1, IF n < Len(xs) THEN n ELSE Len(xs))

RECURSIVE JoinWith(_, _)
\* sep.join(words)
JoinWith(sep, words) ==
    IF words = <<>> THEN <<>>
    ELSE IF Len(words) = 1 THEN words[1]
    ELSE words[1] \o sep \o JoinWith(sep, Tail(words))

\* str(xs) for a list of str: "['a', 'b']"
ReprList(xs) ==
    <<"[">> \o JoinWith(<<",", " ">>, [i \in 1..Len(xs) |-> <<"'">> \o xs[i] \o <<"'">>])
            \o <<"]">>

Min(a, b) == IF a < b THEN a ELSE b
Max(a, b) == IF a > b THEN a ELSE b

\* d.get(key, default)
Get(d, key, default) == IF key \in DOMAIN d THEN d[key] ELSE default

EmptyDict == <<>>
EmptyList == <<>>

\* values of json.loads(): a dict, a list or None, with the kind kept
PyDict(d) == [kind |-> "dict", val |-> d]
PyList(xs) == [kind |-> "list", val |-> xs]
PyNone == [kind |-> "none", val |-> <<>>]
\* {} and [], the values analyze() initialises an output field with
IsEmptyValue(v) == v.kind \in {"dict", "list"} /\ DOMAIN v.val = {}

\* {x.lower() for x in xs}
LowerSet(xs) == {Lower(xs[i]) : i \in 1..Len(xs)}

\* list(S) for a set S of str: the entries in the hash order of the process
ListOfSet(S, order) == SelectSeq(order, LAMBDA x : x \in S)

(***************************************************************************)
(* Literals of career_agent.py                                             *)
(***************************************************************************)
\* the keywords stage 1 leaves out
excluded_keywords ==
    <<<<"m","e">>, <<"i","s","l","a","m","a","b","a","d">>, <<"y","o","u">>>>

essential_sections ==
    <<<<"e","x","p","e","r","i","e","n","c","e">>, <<"e","d","u","c","a","t","i","o","n">>,
      <<"s","k","i","l","l","s">>>>

action_verbs ==
    <<<<"m","a","n","a","g","e","d">>, <<"d","e","v","e","l","o","p","e","d">>,
      <<"c","r","e","a","t","e","d">>, <<"i","m","p","l","e","m","e","n","t","e","d">>,
      <<"d","e","s","i","g","n","e","d">>, <<"l","e","d">>, <<"b","u","i","l","t">>,
      <<"a","c","h","i","e","v","e","d">>, <<"i","m","p","r","o","v","e","d">>,
      <<"o","p","t","i","m","i","z","e","d">>>>

technical_terms ==
    <<<<"A","P","I">>, <<"R","E","S","T">>, <<"S","Q","L">>, <<"N","o","S","Q","L">>,
      <<"A","W","S">>, <<"D","o","c","k","e","r">>, <<"G","i","t">>, <<"C","I","/","C","D">>>>

common_skills ==
    <<<<"P","y","t","h","o","n">>, <<"J","a","v","a","S","c","r","i","p","t">>, <<"J","a","v","a">>,
      <<"R","e","a","c","t">>, <<"N","o","d","e",".","j","s">>, <<"S","Q","L">>, <<"A","W","S">>,
      <<"D","o","c","k","e","r">>, <<"G","i","t">>, <<"M","o","n","g","o","D","B">>,
      <<"P","o","s","t","g","r","e","S","Q","L">>, <<"R","e","d","i","s">>>>

skill_patterns ==
    <<<<"p","y","t","h","o","n">>, <<"j","a","v","a">>, <<"j","a","v","a","s","c","r","i","p","t">>,
      <<"r","e","a","c","t">>, <<"a","n","g","u","l","a","r">>, <<"v","u","e">>,
      <<"n","o","d","e",".","j","s">>, <<"e","x","p","r","e","s","s">>, <<"d","j","a","n","g","o">>,
      <<"f","l","a","s","k">>, <<"s","p","r","i","n","g">>, <<"s","q","l">>,
      <<"m","o","n","g","o","d","b">>, <<"p","o","s","t","g","r","e","s","q","l">>,
      <<"r","e","d","i","s">>, <<"a","w","s">>, <<"a","z","u","r","e">>, <<"g","c","p">>,
      <<"d","o","c","k","e","r">>, <<"k","u","b","e","r","n","e","t","e","s">>, <<"g","i","t">>,
      <<"j","e","n","k","i","n","s">>, <<"c","i","/","c","d">>>>

senior_terms ==
    <<<<"s","e","n","i","o","r">>, <<"l","e","a","d">>, <<"p","r","i","n","c","i","p","a","l">>,
      <<"a","r","c","h","i","t","e","c","t">>>>

mid_terms ==
    <<<<"m","i","d","-","l","e","v","e","l">>, <<"i","n","t","e","r","m","e","d","i","a","t","e">>,
      <<"3","+"," ","y","e","a","r","s">>, <<"4","+"," ","y","e","a","r","s">>,
      <<"5","+"," ","y","e","a","r","s">>>>

\* the keys of resource_map
resource_map_keys ==
    <<<<"r","e","a","c","t">>, <<"j","a","v","a","s","c","r","i","p","t">>,
      <<"p","y","t","h","o","n">>, <<"n","o","d","e",".","j","s">>, <<"s","q","l">>, <<"a","w","s">>,
      <<"d","o","c","k","e","r">>>>

web_skills ==
    <<<<"r","e","a","c","t">>, <<"j","a","v","a","s","c","r","i","p","t">>,
      <<"n","o","d","e",".","j","s">>, <<"f","r","o","n","t","e","n","d">>,
      <<"b","a","c","k","e","n","d">>>>

data_skills ==
    <<<<"p","y","t","h","o","n">>, <<"d","a","t","a">>,
      <<"m","a","c","h","i","n","e"," ","l","e","a","r","n","i","n","g">>, <<"a","i">>,
      <<"a","n","a","l","y","s","i","s">>>>

cloud_skills ==
    <<<<"a","w","s">>, <<"d","o","c","k","e","r">>, <<"k","u","b","e","r","n","e","t","e","s">>,
      <<"c","l","o","u","d">>, <<"d","e","v","o","p","s">>>>

coding_skills ==
    <<<<"p","y","t","h","o","n">>, <<"j","a","v","a","s","c","r","i","p","t">>, <<"j","a","v","a">>,
      <<"c","+","+">>, <<"r","e","a","c","t">>, <<"n","o","d","e",".","j","s">>>>

api_keywords ==
    <<<<"a","p","i">>, <<"r","e","s","t">>, <<"b","a","c","k","e","n","d">>>>

frontend_keywords ==
    <<<<"f","r","o","n","t","e","n","d">>, <<"u","i">>, <<"u","x">>, <<"r","e","a","c","t">>,
      <<"a","n","g","u","l","a","r">>, <<"v","u","e">>>>

data_keywords ==
    <<<<"d","a","t","a">>, <<"d","a","t","a","b","a","s","e">>, <<"s","q","l">>,
      <<"n","o","s","q","l">>>>

\* target_words of _analyze_keyword_repetitions
target_words == {
    <<"a","c","c","o","m","p","l","i","s","h","e","d">>, <<"a","c","h","i","e","v","e","d">>,
    <<"a","n","a","l","y","z","e","d">>, <<"a","p","p","l","i","c","a","t","i","o","n">>,
    <<"a","p","p","l","i","e","d">>, <<"a","s","s","e","s","s","e","d">>,
    <<"a","s","s","i","s","t","a","n","c","e">>, <<"a","u","t","o","m","a","t","e","d">>,
    <<"b","u","i","l","t">>, <<"c","l","i","e","n","t">>,
    <<"c","o","l","l","a","b","o","r","a","t","e","d">>, <<"c","o","m","p","l","e","t","e","d">>,
    <<"c","o","n","d","u","c","t","e","d">>, <<"c","o","n","t","r","i","b","u","t","e","d">>,
    <<"c","o","o","r","d","i","n","a","t","e","d">>, <<"c","r","e","a","t","e","d">>,
    <<"c","u","s","t","o","m","e","r">>, <<"d","e","c","r","e","a","s","e","d">>,
    <<"d","e","l","i","v","e","r","e","d">>, <<"d","e","s","i","g","n","e","d">>,
    <<"d","e","v","e","l","o","p","e","d">>, <<"d","e","v","e","l","o","p","m","e","n","t">>,
    <<"e","n","h","a","n","c","e","d">>, <<"e","n","h","a","n","c","e","m","e","n","t">>,
    <<"e","s","t","a","b","l","i","s","h","e","d">>, <<"e","v","a","l","u","a","t","e","d">>,
    <<"e","x","e","c","u","t","e","d">>, <<"e","x","p","e","r","i","e","n","c","e">>,
    <<"f","r","a","m","e","w","o","r","k">>, <<"g","u","i","d","a","n","c","e">>,
    <<"h","a","n","d","l","e","d">>, <<"h","e","l","p">>,
    <<"i","m","p","l","e","m","e","n","t","a","t","i","o","n">>,
    <<"i","m","p","l","e","m","e","n","t","e","d">>, <<"i","m","p","r","o","v","e","d">>,
    <<"i","m","p","r","o","v","e","m","e","n","t">>, <<"i","n","c","r","e","a","s","e","d">>,
    <<"i","n","i","t","i","a","t","i","v","e">>, <<"i","n","t","e","g","r","a","t","e","d">>,
    <<"l","e","d">>, <<"m","a","i","n","t","a","i","n","e","d">>, <<"m","a","n","a","g","e","d">>,
    <<"m","o","n","i","t","o","r","e","d">>, <<"o","p","e","r","a","t","e","d">>,
    <<"o","p","t","i","m","i","z","a","t","i","o","n">>, <<"o","p","t","i","m","i","z","e","d">>,
    <<"o","r","g","a","n","i","z","e","d">>, <<"p","a","r","t","i","c","i","p","a","t","e","d">>,
    <<"p","e","r","f","o","r","m","e","d">>, <<"p","l","a","t","f","o","r","m">>,
    <<"p","r","o","c","e","s","s">>, <<"p","r","o","d","u","c","t">>, <<"p","r","o","g","r","a","m">>,
    <<"p","r","o","j","e","c","t">>, <<"r","e","d","u","c","e","d">>,
    <<"r","e","s","p","o","n","s","i","b","l","e">>, <<"r","e","v","i","e","w","e","d">>,
    <<"s","e","r","v","i","c","e">>, <<"s","k","i","l","l","s">>, <<"s","o","l","u","t","i","o","n">>,
    <<"s","t","r","a","t","e","g","y">>, <<"s","t","r","e","a","m","l","i","n","e","d">>,
    <<"s","u","p","e","r","v","i","s","e","d">>, <<"s","u","p","p","o","r","t">>,
    <<"s","y","s","t","e","m">>, <<"t","e","a","m">>, <<"t","o","o","l">>,
    <<"t","r","a","c","k","e","d">>, <<"t","r","a","i","n","i","n","g">>, <<"u","s","e","d">>,
    <<"u","t","i","l","i","z","e","d">>, <<"w","o","r","k","e","d">>,
    <<"w","o","r","k","f","l","o","w">>}

\* tech_synonyms of _get_synonyms: word -> curated synonyms
tech_synonyms ==
    <<"d","e","v","e","l","o","p","e","d">> :> <<<<"b","u","i","l","t">>, <<"c","r","e","a","t","e","d">>, <<"d","e","s","i","g","n","e","d">>,
            <<"i","m","p","l","e","m","e","n","t","e","d">>, <<"e","n","g","i","n","e","e","r","e","d">>,
            <<"c","o","n","s","t","r","u","c","t","e","d">>, <<"p","r","o","d","u","c","e","d">>,
            <<"c","r","a","f","t","e","d">>>>
    @@ <<"b","u","i","l","t">> :> <<<<"d","e","v","e","l","o","p","e","d">>, <<"c","r","e","a","t","e","d">>,
            <<"c","o","n","s","t","r","u","c","t","e","d">>, <<"i","m","p","l","e","m","e","n","t","e","d">>,
            <<"e","n","g","i","n","e","e","r","e","d">>, <<"a","s","s","e","m","b","l","e","d">>,
            <<"e","s","t","a","b","l","i","s","h","e","d">>>>
    @@ <<"c","r","e","a","t","e","d">> :> <<<<"d","e","v","e","l","o","p","e","d">>, <<"b","u","i","l","t">>,
            <<"d","e","s","i","g","n","e","d">>, <<"e","s","t","a","b","l","i","s","h","e","d">>,
            <<"f","o","r","m","e","d">>, <<"g","e","n","e","r","a","t","e","d">>,
            <<"p","r","o","d","u","c","e","d">>, <<"c","r","a","f","t","e","d">>>>
    @@ <<"d","e","s","i","g","n","e","d">> :> <<<<"a","r","c","h","i","t","e","c","t","e","d">>, <<"p","l","a","n","n","e","d">>,
            <<"s","t","r","u","c","t","u","r","e","d">>,
            <<"c","o","n","c","e","p","t","u","a","l","i","z","e","d">>,
            <<"d","e","v","e","l","o","p","e","d">>, <<"c","r","e","a","t","e","d">>,
            <<"f","o","r","m","u","l","a","t","e","d">>>>
    @@ <<"i","m","p","l","e","m","e","n","t","e","d">> :> <<<<"e","x","e","c","u","t","e","d">>, <<"d","e","p","l","o","y","e","d">>,
            <<"i","n","t","e","g","r","a","t","e","d">>, <<"e","s","t","a","b","l","i","s","h","e","d">>,
            <<"i","n","s","t","a","l","l","e","d">>, <<"d","e","v","e","l","o","p","e","d">>,
            <<"b","u","i","l","t">>>>
    @@ <<"m","a","n","a","g","e","d">> :> <<<<"l","e","d">>, <<"s","u","p","e","r","v","i","s","e","d">>,
            <<"c","o","o","r","d","i","n","a","t","e","d">>, <<"d","i","r","e","c","t","e","d">>,
            <<"o","v","e","r","s","a","w">>, <<"h","a","n","d","l","e","d">>,
            <<"a","d","m","i","n","i","s","t","e","r","e","d">>, <<"g","u","i","d","e","d">>>>
    @@ <<"l","e","d">> :> <<<<"m","a","n","a","g","e","d">>, <<"d","i","r","e","c","t","e","d">>, <<"g","u","i","d","e","d">>,
            <<"s","u","p","e","r","v","i","s","e","d">>, <<"c","o","o","r","d","i","n","a","t","e","d">>,
            <<"h","e","a","d","e","d">>, <<"s","p","e","a","r","h","e","a","d","e","d">>>>
    @@ <<"s","u","p","e","r","v","i","s","e","d">> :> <<<<"m","a","n","a","g","e","d">>, <<"l","e","d">>, <<"o","v","e","r","s","a","w">>,
            <<"d","i","r","e","c","t","e","d">>, <<"c","o","o","r","d","i","n","a","t","e","d">>,
            <<"g","u","i","d","e","d">>, <<"m","e","n","t","o","r","e","d">>>>
    @@ <<"c","o","o","r","d","i","n","a","t","e","d">> :> <<<<"m","a","n","a","g","e","d">>, <<"o","r","g","a","n","i","z","e","d">>,
            <<"f","a","c","i","l","i","t","a","t","e","d">>,
            <<"o","r","c","h","e","s","t","r","a","t","e","d">>,
            <<"s","y","n","c","h","r","o","n","i","z","e","d">>, <<"a","r","r","a","n","g","e","d">>,
            <<"d","i","r","e","c","t","e","d">>>>
    @@ <<"i","m","p","r","o","v","e","d">> :> <<<<"e","n","h","a","n","c","e","d">>, <<"o","p","t","i","m","i","z","e","d">>,
            <<"u","p","g","r","a","d","e","d">>, <<"r","e","f","i","n","e","d">>,
            <<"b","o","o","s","t","e","d">>, <<"s","t","r","e","n","g","t","h","e","n","e","d">>,
            <<"a","d","v","a","n","c","e","d">>>>
    @@ <<"e","n","h","a","n","c","e","d">> :> <<<<"i","m","p","r","o","v","e","d">>, <<"o","p","t","i","m","i","z","e","d">>,
            <<"u","p","g","r","a","d","e","d">>, <<"r","e","f","i","n","e","d">>,
            <<"s","t","r","e","n","g","t","h","e","n","e","d">>, <<"a","u","g","m","e","n","t","e","d">>,
            <<"e","l","e","v","a","t","e","d">>>>
    @@ <<"o","p","t","i","m","i","z","e","d">> :> <<<<"i","m","p","r","o","v","e","d">>, <<"e","n","h","a","n","c","e","d">>,
            <<"r","e","f","i","n","e","d">>, <<"s","t","r","e","a","m","l","i","n","e","d">>,
            <<"m","a","x","i","m","i","z","e","d">>, <<"u","p","g","r","a","d","e","d">>,
            <<"f","i","n","e","-","t","u","n","e","d">>>>
    @@ <<"w","o","r","k","e","d">> :> <<<<"c","o","l","l","a","b","o","r","a","t","e","d">>,
            <<"c","o","n","t","r","i","b","u","t","e","d">>,
            <<"p","a","r","t","i","c","i","p","a","t","e","d">>, <<"e","n","g","a","g","e","d">>,
            <<"i","n","v","o","l","v","e","d">>, <<"o","p","e","r","a","t","e","d">>,
            <<"f","u","n","c","t","i","o","n","e","d">>>>
    @@ <<"c","o","l","l","a","b","o","r","a","t","e","d">> :> <<<<"p","a","r","t","n","e","r","e","d">>, <<"c","o","o","p","e","r","a","t","e","d">>,
            <<"w","o","r","k","e","d"," ","t","o","g","e","t","h","e","r">>,
            <<"t","e","a","m","e","d"," ","u","p">>, <<"c","o","o","r","d","i","n","a","t","e","d">>,
            <<"c","o","n","t","r","i","b","u","t","e","d">>>>
    @@ <<"c","o","n","t","r","i","b","u","t","e","d">> :> <<<<"p","a","r","t","i","c","i","p","a","t","e","d">>, <<"a","s","s","i","s","t","e","d">>,
            <<"s","u","p","p","o","r","t","e","d">>, <<"a","i","d","e","d">>, <<"h","e","l","p","e","d">>,
            <<"c","o","l","l","a","b","o","r","a","t","e","d">>, <<"e","n","g","a","g","e","d">>>>
    @@ <<"p","a","r","t","i","c","i","p","a","t","e","d">> :> <<<<"e","n","g","a","g","e","d">>, <<"c","o","n","t","r","i","b","u","t","e","d">>,
            <<"i","n","v","o","l","v","e","d">>, <<"t","o","o","k"," ","p","a","r","t">>,
            <<"c","o","l","l","a","b","o","r","a","t","e","d">>, <<"a","s","s","i","s","t","e","d">>>>
    @@ <<"u","s","e","d">> :> <<<<"u","t","i","l","i","z","e","d">>, <<"e","m","p","l","o","y","e","d">>,
            <<"a","p","p","l","i","e","d">>, <<"l","e","v","e","r","a","g","e","d">>,
            <<"i","m","p","l","e","m","e","n","t","e","d">>, <<"o","p","e","r","a","t","e","d">>,
            <<"a","d","o","p","t","e","d">>>>
    @@ <<"u","t","i","l","i","z","e","d">> :> <<<<"u","s","e","d">>, <<"e","m","p","l","o","y","e","d">>, <<"a","p","p","l","i","e","d">>,
            <<"l","e","v","e","r","a","g","e","d">>, <<"i","m","p","l","e","m","e","n","t","e","d">>,
            <<"a","d","o","p","t","e","d">>, <<"e","x","p","l","o","i","t","e","d">>>>
    @@ <<"a","p","p","l","i","e","d">> :> <<<<"u","s","e","d">>, <<"u","t","i","l","i","z","e","d">>, <<"e","m","p","l","o","y","e","d">>,
            <<"i","m","p","l","e","m","e","n","t","e","d">>, <<"e","x","e","r","c","i","s","e","d">>,
            <<"p","r","a","c","t","i","c","e","d">>, <<"e","x","e","c","u","t","e","d">>>>
    @@ <<"e","s","t","a","b","l","i","s","h","e","d">> :> <<<<"f","o","u","n","d","e","d">>, <<"c","r","e","a","t","e","d">>, <<"s","e","t"," ","u","p">>,
            <<"i","n","i","t","i","a","t","e","d">>, <<"i","n","s","t","i","t","u","t","e","d">>,
            <<"f","o","r","m","e","d">>, <<"l","a","u","n","c","h","e","d">>>>
    @@ <<"m","a","i","n","t","a","i","n","e","d">> :> <<<<"s","u","s","t","a","i","n","e","d">>, <<"p","r","e","s","e","r","v","e","d">>,
            <<"k","e","p","t">>, <<"u","p","h","e","l","d">>, <<"s","u","p","p","o","r","t","e","d">>,
            <<"c","o","n","t","i","n","u","e","d">>, <<"m","a","n","a","g","e","d">>>>
    @@ <<"o","p","e","r","a","t","e","d">> :> <<<<"m","a","n","a","g","e","d">>, <<"r","a","n">>, <<"c","o","n","t","r","o","l","l","e","d">>,
            <<"h","a","n","d","l","e","d">>, <<"a","d","m","i","n","i","s","t","e","r","e","d">>,
            <<"e","x","e","c","u","t","e","d">>, <<"f","u","n","c","t","i","o","n","e","d">>>>
    @@ <<"h","a","n","d","l","e","d">> :> <<<<"m","a","n","a","g","e","d">>, <<"d","e","a","l","t"," ","w","i","t","h">>,
            <<"p","r","o","c","e","s","s","e","d">>, <<"a","d","d","r","e","s","s","e","d">>,
            <<"c","o","n","t","r","o","l","l","e","d">>, <<"o","p","e","r","a","t","e","d">>,
            <<"a","d","m","i","n","i","s","t","e","r","e","d">>>>
    @@ <<"e","x","e","c","u","t","e","d">> :> <<<<"i","m","p","l","e","m","e","n","t","e","d">>, <<"p","e","r","f","o","r","m","e","d">>,
            <<"c","a","r","r","i","e","d"," ","o","u","t">>,
            <<"a","c","c","o","m","p","l","i","s","h","e","d">>, <<"d","e","l","i","v","e","r","e","d">>,
            <<"c","o","m","p","l","e","t","e","d">>>>
    @@ <<"d","e","l","i","v","e","r","e","d">> :> <<<<"p","r","o","v","i","d","e","d">>, <<"c","o","m","p","l","e","t","e","d">>,
            <<"a","c","h","i","e","v","e","d">>, <<"a","c","c","o","m","p","l","i","s","h","e","d">>,
            <<"e","x","e","c","u","t","e","d">>, <<"p","r","o","d","u","c","e","d">>,
            <<"s","u","p","p","l","i","e","d">>>>
    @@ <<"a","c","h","i","e","v","e","d">> :> <<<<"a","c","c","o","m","p","l","i","s","h","e","d">>, <<"a","t","t","a","i","n","e","d">>,
            <<"r","e","a","l","i","z","e","d">>, <<"c","o","m","p","l","e","t","e","d">>,
            <<"d","e","l","i","v","e","r","e","d">>, <<"s","e","c","u","r","e","d">>,
            <<"o","b","t","a","i","n","e","d">>>>
    @@ <<"a","c","c","o","m","p","l","i","s","h","e","d">> :> <<<<"a","c","h","i","e","v","e","d">>, <<"c","o","m","p","l","e","t","e","d">>,
            <<"f","u","l","f","i","l","l","e","d">>, <<"a","t","t","a","i","n","e","d">>,
            <<"r","e","a","l","i","z","e","d">>, <<"e","x","e","c","u","t","e","d">>,
            <<"d","e","l","i","v","e","r","e","d">>>>
    @@ <<"c","o","m","p","l","e","t","e","d">> :> <<<<"f","i","n","i","s","h","e","d">>, <<"a","c","c","o","m","p","l","i","s","h","e","d">>,
            <<"c","o","n","c","l","u","d","e","d">>, <<"d","e","l","i","v","e","r","e","d">>,
            <<"f","u","l","f","i","l","l","e","d">>, <<"e","x","e","c","u","t","e","d">>>>
    @@ <<"p","e","r","f","o","r","m","e","d">> :> <<<<"e","x","e","c","u","t","e","d">>, <<"c","a","r","r","i","e","d"," ","o","u","t">>,
            <<"c","o","n","d","u","c","t","e","d">>, <<"a","c","c","o","m","p","l","i","s","h","e","d">>,
            <<"d","e","l","i","v","e","r","e","d">>, <<"c","o","m","p","l","e","t","e","d">>>>
    @@ <<"c","o","n","d","u","c","t","e","d">> :> <<<<"p","e","r","f","o","r","m","e","d">>, <<"c","a","r","r","i","e","d"," ","o","u","t">>,
            <<"e","x","e","c","u","t","e","d">>, <<"m","a","n","a","g","e","d">>, <<"l","e","d">>,
            <<"f","a","c","i","l","i","t","a","t","e","d">>, <<"o","r","g","a","n","i","z","e","d">>>>
    @@ <<"o","r","g","a","n","i","z","e","d">> :> <<<<"a","r","r","a","n","g","e","d">>, <<"s","t","r","u","c","t","u","r","e","d">>,
            <<"c","o","o","r","d","i","n","a","t","e","d">>, <<"p","l","a","n","n","e","d">>,
            <<"m","a","n","a","g","e","d">>, <<"s","y","s","t","e","m","a","t","i","z","e","d">>>>
    @@ <<"a","n","a","l","y","z","e","d">> :> <<<<"e","x","a","m","i","n","e","d">>, <<"e","v","a","l","u","a","t","e","d">>,
            <<"a","s","s","e","s","s","e","d">>, <<"r","e","v","i","e","w","e","d">>,
            <<"s","t","u","d","i","e","d">>, <<"i","n","v","e","s","t","i","g","a","t","e","d">>,
            <<"r","e","s","e","a","r","c","h","e","d">>>>
    @@ <<"e","v","a","l","u","a","t","e","d">> :> <<<<"a","s","s","e","s","s","e","d">>, <<"a","n","a","l","y","z","e","d">>,
            <<"r","e","v","i","e","w","e","d">>, <<"e","x","a","m","i","n","e","d">>,
            <<"a","p","p","r","a","i","s","e","d">>, <<"j","u","d","g","e","d">>,
            <<"m","e","a","s","u","r","e","d">>>>
    @@ <<"a","s","s","e","s","s","e","d">> :> <<<<"e","v","a","l","u","a","t","e","d">>, <<"a","n","a","l","y","z","e","d">>,
            <<"r","e","v","i","e","w","e","d">>, <<"e","x","a","m","i","n","e","d">>,
            <<"a","p","p","r","a","i","s","e","d">>, <<"g","a","u","g","e","d">>,
            <<"m","e","a","s","u","r","e","d">>>>
    @@ <<"r","e","v","i","e","w","e","d">> :> <<<<"e","x","a","m","i","n","e","d">>, <<"a","n","a","l","y","z","e","d">>,
            <<"e","v","a","l","u","a","t","e","d">>, <<"a","s","s","e","s","s","e","d">>,
            <<"i","n","s","p","e","c","t","e","d">>, <<"a","u","d","i","t","e","d">>,
            <<"s","t","u","d","i","e","d">>>>
    @@ <<"m","o","n","i","t","o","r","e","d">> :> <<<<"t","r","a","c","k","e","d">>, <<"o","b","s","e","r","v","e","d">>,
            <<"s","u","p","e","r","v","i","s","e","d">>, <<"w","a","t","c","h","e","d">>,
            <<"o","v","e","r","s","a","w">>, <<"s","u","r","v","e","y","e","d">>,
            <<"c","o","n","t","r","o","l","l","e","d">>>>
    @@ <<"t","r","a","c","k","e","d">> :> <<<<"m","o","n","i","t","o","r","e","d">>, <<"f","o","l","l","o","w","e","d">>,
            <<"t","r","a","c","e","d">>, <<"o","b","s","e","r","v","e","d">>,
            <<"r","e","c","o","r","d","e","d">>, <<"m","e","a","s","u","r","e","d">>,
            <<"d","o","c","u","m","e","n","t","e","d">>>>
    @@ <<"i","n","c","r","e","a","s","e","d">> :> <<<<"b","o","o","s","t","e","d">>, <<"e","n","h","a","n","c","e","d">>,
            <<"i","m","p","r","o","v","e","d">>, <<"e","l","e","v","a","t","e","d">>,
            <<"r","a","i","s","e","d">>, <<"a","m","p","l","i","f","i","e","d">>,
            <<"e","x","p","a","n","d","e","d">>>>
    @@ <<"d","e","c","r","e","a","s","e","d">> :> <<<<"r","e","d","u","c","e","d">>, <<"l","o","w","e","r","e","d">>,
            <<"m","i","n","i","m","i","z","e","d">>, <<"c","u","t">>,
            <<"d","i","m","i","n","i","s","h","e","d">>, <<"l","e","s","s","e","n","e","d">>,
            <<"s","c","a","l","e","d"," ","d","o","w","n">>>>
    @@ <<"r","e","d","u","c","e","d">> :> <<<<"d","e","c","r","e","a","s","e","d">>, <<"m","i","n","i","m","i","z","e","d">>,
            <<"l","o","w","e","r","e","d">>, <<"c","u","t">>, <<"s","c","a","l","e","d"," ","d","o","w","n">>,
            <<"d","i","m","i","n","i","s","h","e","d">>, <<"s","t","r","e","a","m","l","i","n","e","d">>>>
    @@ <<"s","t","r","e","a","m","l","i","n","e","d">> :> <<<<"o","p","t","i","m","i","z","e","d">>, <<"s","i","m","p","l","i","f","i","e","d">>,
            <<"i","m","p","r","o","v","e","d">>, <<"r","e","f","i","n","e","d">>,
            <<"e","n","h","a","n","c","e","d">>, <<"a","u","t","o","m","a","t","e","d">>,
            <<"s","t","a","n","d","a","r","d","i","z","e","d">>>>
    @@ <<"a","u","t","o","m","a","t","e","d">> :> <<<<"s","t","r","e","a","m","l","i","n","e","d">>,
            <<"s","y","s","t","e","m","a","t","i","z","e","d">>, <<"m","e","c","h","a","n","i","z","e","d">>,
            <<"c","o","m","p","u","t","e","r","i","z","e","d">>, <<"o","p","t","i","m","i","z","e","d">>,
            <<"d","i","g","i","t","i","z","e","d">>>>
    @@ <<"i","n","t","e","g","r","a","t","e","d">> :> <<<<"i","n","c","o","r","p","o","r","a","t","e","d">>, <<"c","o","m","b","i","n","e","d">>,
            <<"m","e","r","g","e","d">>, <<"u","n","i","f","i","e","d">>,
            <<"c","o","n","n","e","c","t","e","d">>, <<"l","i","n","k","e","d">>,
            <<"s","y","n","c","h","r","o","n","i","z","e","d">>>>
    @@ <<"r","e","s","p","o","n","s","i","b","l","e">> :> <<<<"a","c","c","o","u","n","t","a","b","l","e">>,
            <<"i","n"," ","c","h","a","r","g","e"," ","o","f">>, <<"o","v","e","r","s","a","w">>,
            <<"m","a","n","a","g","e","d">>, <<"h","a","n","d","l","e","d">>, <<"l","e","d">>,
            <<"t","a","s","k","e","d"," ","w","i","t","h">>>>
    @@ <<"e","x","p","e","r","i","e","n","c","e">> :> <<<<"e","x","p","e","r","t","i","s","e">>, <<"b","a","c","k","g","r","o","u","n","d">>,
            <<"p","r","o","f","i","c","i","e","n","c","y">>, <<"k","n","o","w","l","e","d","g","e">>,
            <<"s","k","i","l","l","s">>, <<"f","a","m","i","l","i","a","r","i","t","y">>,
            <<"c","o","m","p","e","t","e","n","c","y">>>>
    @@ <<"s","k","i","l","l","s">> :> <<<<"a","b","i","l","i","t","i","e","s">>, <<"c","o","m","p","e","t","e","n","c","i","e","s">>,
            <<"e","x","p","e","r","t","i","s","e">>, <<"p","r","o","f","i","c","i","e","n","c","i","e","s">>,
            <<"c","a","p","a","b","i","l","i","t","i","e","s">>, <<"t","a","l","e","n","t","s">>,
            <<"q","u","a","l","i","f","i","c","a","t","i","o","n","s">>>>
    @@ <<"p","r","o","j","e","c","t">> :> <<<<"i","n","i","t","i","a","t","i","v","e">>, <<"p","r","o","g","r","a","m">>,
            <<"a","p","p","l","i","c","a","t","i","o","n">>, <<"s","y","s","t","e","m">>,
            <<"s","o","l","u","t","i","o","n">>, <<"p","r","o","d","u","c","t">>,
            <<"e","n","d","e","a","v","o","r">>>>
    @@ <<"t","e","a","m">> :> <<<<"g","r","o","u","p">>, <<"u","n","i","t">>, <<"s","q","u","a","d">>, <<"c","r","e","w">>,
            <<"d","e","p","a","r","t","m","e","n","t">>, <<"o","r","g","a","n","i","z","a","t","i","o","n">>,
            <<"c","o","l","l","e","c","t","i","v","e">>>>
    @@ <<"c","l","i","e","n","t">> :> <<<<"c","u","s","t","o","m","e","r">>, <<"u","s","e","r">>,
            <<"s","t","a","k","e","h","o","l","d","e","r">>, <<"p","a","t","r","o","n">>,
            <<"c","o","n","s","u","m","e","r">>, <<"e","n","d","-","u","s","e","r">>,
            <<"a","c","c","o","u","n","t">>>>
    @@ <<"c","u","s","t","o","m","e","r">> :> <<<<"c","l","i","e","n","t">>, <<"u","s","e","r">>, <<"c","o","n","s","u","m","e","r">>,
            <<"p","a","t","r","o","n">>, <<"e","n","d","-","u","s","e","r">>,
            <<"s","t","a","k","e","h","o","l","d","e","r">>, <<"a","c","c","o","u","n","t">>>>
    @@ <<"s","o","l","u","t","i","o","n">> :> <<<<"r","e","s","o","l","u","t","i","o","n">>, <<"a","n","s","w","e","r">>,
            <<"a","p","p","r","o","a","c","h">>, <<"m","e","t","h","o","d">>, <<"s","y","s","t","e","m">>,
            <<"s","t","r","a","t","e","g","y">>, <<"i","m","p","l","e","m","e","n","t","a","t","i","o","n">>>>
    @@ <<"s","y","s","t","e","m">> :> <<<<"p","l","a","t","f","o","r","m">>, <<"f","r","a","m","e","w","o","r","k">>,
            <<"i","n","f","r","a","s","t","r","u","c","t","u","r","e">>,
            <<"a","r","c","h","i","t","e","c","t","u","r","e">>, <<"s","o","l","u","t","i","o","n">>,
            <<"a","p","p","l","i","c","a","t","i","o","n">>>>
    @@ <<"a","p","p","l","i","c","a","t","i","o","n">> :> <<<<"s","y","s","t","e","m">>, <<"s","o","f","t","w","a","r","e">>, <<"p","r","o","g","r","a","m">>,
            <<"p","l","a","t","f","o","r","m">>, <<"t","o","o","l">>, <<"s","o","l","u","t","i","o","n">>,
            <<"p","r","o","d","u","c","t">>>>
    @@ <<"p","l","a","t","f","o","r","m">> :> <<<<"s","y","s","t","e","m">>, <<"f","r","a","m","e","w","o","r","k">>,
            <<"i","n","f","r","a","s","t","r","u","c","t","u","r","e">>,
            <<"e","n","v","i","r","o","n","m","e","n","t">>, <<"f","o","u","n","d","a","t","i","o","n">>,
            <<"b","a","s","e">>>>
    @@ <<"f","r","a","m","e","w","o","r","k">> :> <<<<"s","t","r","u","c","t","u","r","e">>, <<"f","o","u","n","d","a","t","i","o","n">>,
            <<"p","l","a","t","f","o","r","m">>, <<"a","r","c","h","i","t","e","c","t","u","r","e">>,
            <<"s","y","s","t","e","m">>, <<"m","e","t","h","o","d","o","l","o","g","y">>>>
    @@ <<"t","o","o","l">> :> <<<<"u","t","i","l","i","t","y">>, <<"i","n","s","t","r","u","m","e","n","t">>,
            <<"a","p","p","l","i","c","a","t","i","o","n">>, <<"r","e","s","o","u","r","c","e">>,
            <<"s","o","f","t","w","a","r","e">>, <<"p","l","a","t","f","o","r","m">>,
            <<"s","y","s","t","e","m">>>>
    @@ <<"p","r","o","c","e","s","s">> :> <<<<"p","r","o","c","e","d","u","r","e">>, <<"w","o","r","k","f","l","o","w">>,
            <<"m","e","t","h","o","d">>, <<"a","p","p","r","o","a","c","h">>,
            <<"p","r","o","t","o","c","o","l">>, <<"s","y","s","t","e","m">>,
            <<"o","p","e","r","a","t","i","o","n">>>>
    @@ <<"w","o","r","k","f","l","o","w">> :> <<<<"p","r","o","c","e","s","s">>, <<"p","r","o","c","e","d","u","r","e">>,
            <<"o","p","e","r","a","t","i","o","n">>, <<"p","i","p","e","l","i","n","e">>,
            <<"s","y","s","t","e","m">>, <<"m","e","t","h","o","d","o","l","o","g","y">>,
            <<"p","r","o","t","o","c","o","l">>>>
    @@ <<"s","t","r","a","t","e","g","y">> :> <<<<"a","p","p","r","o","a","c","h">>, <<"p","l","a","n">>, <<"m","e","t","h","o","d">>,
            <<"t","e","c","h","n","i","q","u","e">>, <<"f","r","a","m","e","w","o","r","k">>,
            <<"m","e","t","h","o","d","o","l","o","g","y">>, <<"b","l","u","e","p","r","i","n","t">>>>
    @@ <<"i","n","i","t","i","a","t","i","v","e">> :> <<<<"p","r","o","j","e","c","t">>, <<"p","r","o","g","r","a","m">>, <<"e","f","f","o","r","t">>,
            <<"c","a","m","p","a","i","g","n">>, <<"e","n","d","e","a","v","o","r">>,
            <<"v","e","n","t","u","r","e">>, <<"u","n","d","e","r","t","a","k","i","n","g">>>>
    @@ <<"p","r","o","g","r","a","m">> :> <<<<"p","r","o","j","e","c","t">>, <<"i","n","i","t","i","a","t","i","v","e">>,
            <<"s","y","s","t","e","m">>, <<"a","p","p","l","i","c","a","t","i","o","n">>,
            <<"s","o","f","t","w","a","r","e">>, <<"p","l","a","t","f","o","r","m">>,
            <<"s","o","l","u","t","i","o","n">>>>
    @@ <<"p","r","o","d","u","c","t">> :> <<<<"s","o","l","u","t","i","o","n">>, <<"a","p","p","l","i","c","a","t","i","o","n">>,
            <<"s","y","s","t","e","m">>, <<"o","f","f","e","r","i","n","g">>, <<"s","e","r","v","i","c","e">>,
            <<"p","l","a","t","f","o","r","m">>, <<"t","o","o","l">>>>
    @@ <<"s","e","r","v","i","c","e">> :> <<<<"o","f","f","e","r","i","n","g">>, <<"s","o","l","u","t","i","o","n">>,
            <<"s","u","p","p","o","r","t">>, <<"a","s","s","i","s","t","a","n","c","e">>,
            <<"f","a","c","i","l","i","t","y">>, <<"r","e","s","o","u","r","c","e">>,
            <<"c","a","p","a","b","i","l","i","t","y">>>>
    @@ <<"s","u","p","p","o","r","t">> :> <<<<"a","s","s","i","s","t","a","n","c","e">>, <<"h","e","l","p">>, <<"a","i","d">>,
            <<"s","e","r","v","i","c","e">>, <<"b","a","c","k","u","p">>,
            <<"m","a","i","n","t","e","n","a","n","c","e">>, <<"g","u","i","d","a","n","c","e">>>>
    @@ <<"a","s","s","i","s","t","a","n","c","e">> :> <<<<"s","u","p","p","o","r","t">>, <<"h","e","l","p">>, <<"a","i","d">>,
            <<"g","u","i","d","a","n","c","e">>, <<"s","e","r","v","i","c","e">>, <<"b","a","c","k","u","p">>,
            <<"f","a","c","i","l","i","t","a","t","i","o","n">>>>
    @@ <<"h","e","l","p">> :> <<<<"a","s","s","i","s","t","a","n","c","e">>, <<"s","u","p","p","o","r","t">>, <<"a","i","d">>,
            <<"g","u","i","d","a","n","c","e">>, <<"s","e","r","v","i","c","e">>,
            <<"f","a","c","i","l","i","t","a","t","i","o","n">>, <<"b","a","c","k","u","p">>>>
    @@ <<"g","u","i","d","a","n","c","e">> :> <<<<"d","i","r","e","c","t","i","o","n">>, <<"l","e","a","d","e","r","s","h","i","p">>,
            <<"m","e","n","t","o","r","i","n","g">>, <<"c","o","a","c","h","i","n","g">>,
            <<"a","s","s","i","s","t","a","n","c","e">>, <<"s","u","p","p","o","r","t">>,
            <<"a","d","v","i","c","e">>>>
    @@ <<"t","r","a","i","n","i","n","g">> :> <<<<"e","d","u","c","a","t","i","o","n">>, <<"i","n","s","t","r","u","c","t","i","o","n">>,
            <<"c","o","a","c","h","i","n","g">>, <<"d","e","v","e","l","o","p","m","e","n","t">>,
            <<"l","e","a","r","n","i","n","g">>, <<"m","e","n","t","o","r","i","n","g">>,
            <<"p","r","e","p","a","r","a","t","i","o","n">>>>
    @@ <<"d","e","v","e","l","o","p","m","e","n","t">> :> <<<<"c","r","e","a","t","i","o","n">>, <<"b","u","i","l","d","i","n","g">>,
            <<"c","o","n","s","t","r","u","c","t","i","o","n">>,
            <<"p","r","o","g","r","a","m","m","i","n","g">>, <<"c","o","d","i","n","g">>,
            <<"e","n","g","i","n","e","e","r","i","n","g">>, <<"a","d","v","a","n","c","e","m","e","n","t">>>>
    @@ <<"i","m","p","r","o","v","e","m","e","n","t">> :> <<<<"e","n","h","a","n","c","e","m","e","n","t">>,
            <<"o","p","t","i","m","i","z","a","t","i","o","n">>, <<"u","p","g","r","a","d","e">>,
            <<"r","e","f","i","n","e","m","e","n","t">>, <<"a","d","v","a","n","c","e","m","e","n","t">>,
            <<"b","e","t","t","e","r","m","e","n","t">>>>
    @@ <<"e","n","h","a","n","c","e","m","e","n","t">> :> <<<<"i","m","p","r","o","v","e","m","e","n","t">>, <<"u","p","g","r","a","d","e">>,
            <<"o","p","t","i","m","i","z","a","t","i","o","n">>, <<"r","e","f","i","n","e","m","e","n","t">>,
            <<"a","d","v","a","n","c","e","m","e","n","t">>,
            <<"a","u","g","m","e","n","t","a","t","i","o","n">>>>
    @@ <<"o","p","t","i","m","i","z","a","t","i","o","n">> :> <<<<"i","m","p","r","o","v","e","m","e","n","t">>, <<"e","n","h","a","n","c","e","m","e","n","t">>,
            <<"r","e","f","i","n","e","m","e","n","t">>, <<"s","t","r","e","a","m","l","i","n","i","n","g">>,
            <<"f","i","n","e","-","t","u","n","i","n","g">>,
            <<"m","a","x","i","m","i","z","a","t","i","o","n">>>>
    @@ <<"i","m","p","l","e","m","e","n","t","a","t","i","o","n">> :> <<<<"e","x","e","c","u","t","i","o","n">>, <<"d","e","p","l","o","y","m","e","n","t">>,
            <<"i","n","s","t","a","l","l","a","t","i","o","n">>,
            <<"i","n","t","e","g","r","a","t","i","o","n">>,
            <<"e","s","t","a","b","l","i","s","h","m","e","n","t">>,
            <<"r","e","a","l","i","z","a","t","i","o","n">>>>

(***************************************************************************)
(* Texts                                                                   *)
(***************************************************************************)
\* the str values the inputs and the AI responses are built from
Str ==
    [Python |-> <<"P","y","t","h","o","n">>,
     python |-> <<"p","y","t","h","o","n">>,
     SQL |-> <<"S","Q","L">>,
     sql |-> <<"s","q","l">>,
     Go |-> <<"G","o">>,
     Rust |-> <<"R","u","s","t">>,
     JavaScript |-> <<"J","a","v","a","S","c","r","i","p","t">>,
     javascript |-> <<"j","a","v","a","s","c","r","i","p","t">>,
     junior |-> <<"j","u","n","i","o","r">>]

\* "Experience Education Skills managed developed created implemented designed led built achieved improved optimized Python SQL"
ResumePerfect ==
    <<"E", "x", "p", "e", "r", "i", "e", "n", "c", "e", " ", "E", "d", "u", "c", "a", "t", "i", "o",
      "n", " ", "S", "k", "i", "l", "l", "s", " ", "m", "a", "n", "a", "g", "e", "d", " ", "d", "e",
      "v", "e", "l", "o", "p", "e", "d", " ", "c", "r", "e", "a", "t", "e", "d", " ", "i", "m", "p",
      "l", "e", "m", "e", "n", "t", "e", "d", " ", "d", "e", "s", "i", "g", "n", "e", "d", " ", "l",
      "e", "d", " ", "b", "u", "i", "l", "t", " ", "a", "c", "h", "i", "e", "v", "e", "d", " ", "i",
      "m", "p", "r", "o", "v", "e", "d", " ", "o", "p", "t", "i", "m", "i", "z", "e", "d", " ", "P",
      "y", "t", "h", "o", "n", " ", "S", "Q", "L">>

\* "Skills SQL handled developed developed developed"
ResumeRepeats ==
    <<"S", "k", "i", "l", "l", "s", " ", "S", "Q", "L", " ", "h", "a", "n", "d", "l", "e", "d", " ",
      "d", "e", "v", "e", "l", "o", "p", "e", "d", " ", "d", "e", "v", "e", "l", "o", "p", "e", "d",
      " ", "d", "e", "v", "e", "l", "o", "p", "e", "d">>

\* "hello Python"
ResumePlain ==
    <<"h", "e", "l", "l", "o", " ", "P", "y", "t", "h", "o", "n">>

\* "Python SQL API"
JobPythonSql ==
    <<"P", "y", "t", "h", "o", "n", " ", "S", "Q", "L", " ", "A", "P", "I">>

\* "hello team"
JobPlain ==
    <<"h", "e", "l", "l", "o", " ", "t", "e", "a", "m">>

(***************************************************************************)
(* Inputs and AI responses                                                 *)
(***************************************************************************)
ResumeTexts == {ResumePerfect, ResumeRepeats, ResumePlain}
JobTexts == {JobPythonSql, JobPlain}

NoRequest == [resume_text |-> <<>>, job_description |-> <<>>]
Requests == [resume_text : ResumeTexts, job_description : JobTexts]

\* every str a set handed to list() can hold in this model
HashUniverse ==
    <<Str.python, Str.sql, Lower(Str.Go), Str.Python, Str.SQL, <<"A","P","I">>, Str.javascript>>

Reverse(s) == [i \in 1..Len(s) |-> s[Len(s) + 1 - i]]
\* two of the orders the hash seed can give
HashOrders == {HashUniverse, Reverse(HashUniverse)}

\* self.llm.invoke() raised
AiRaise == [tag |-> "raise", value |-> PyNone]
\* the response is no JSON text
AiText == [tag |-> "text", value |-> PyNone]
AiJson(tag, v) == [tag |-> tag, value |-> v]

AiTags == {"raise", "text", "shape", "entries", "empty", "ok"}

\* the responses drawn for each AI-backed node
AiResponses ==
    [extract_job_requirements |->
        {AiRaise, AiText,
         AiJson("shape", PyList(<<>>)),
         AiJson("entries", PyDict([keywords |-> <<Str.Python>>,
                                    technical_skills |-> <<Str.Python, NonString>>])),
         AiJson("ok", PyDict([keywords |-> <<Str.Python, Str.Rust>>,
                               technical_skills |-> <<Str.Python, Str.SQL, Str.Go>>]))},
     analyze_resume |->
        {AiRaise,
         AiJson("shape", PyList(<<>>)),
         AiJson("ok", PyDict([resume_skills |-> <<Str.python, Str.SQL>>,
                               experience_level |-> "senior",
                               domains |-> <<>>]))},
     generate_roadmap |->
        {AiRaise,
         AiJson("shape", PyNone),
         AiJson("ok", PyDict([roadmap |-> <<"ai-step">>]))},
     suggest_projects |->
        {AiText,
         AiJson("shape", PyDict(EmptyDict)),
         AiJson("ok", PyList(<<"ai-project-1", "ai-project-2">>))},
     find_jobs |->
        {AiRaise,
         AiJson("empty", PyList(EmptyList)),
         AiJson("ok", PyList(<<"ai-job-1">>))},
     prepare_interview |->
        {AiRaise,
         AiJson("shape", PyNone),
         AiJson("ok", PyList([i \in 1..12 |-> "ai-question"]))}]

\* json.loads() of the response raises (so does llm.invoke() itself)
NoJson(resp) == resp.tag \in {"raise", "text"}

(***************************************************************************)
(* The state graph (LangGraph StateGraph over CareerAssistantState)        *)
(***************************************************************************)
\* the keys of the TypedDict: one channel each
SchemaKeys ==
    {"resume_text", "job_description", "extracted_keywords", "extracted_skills",
     "missing_skills", "keyword_repetitions", "ats_score", "learning_roadmap",
     "resources", "projects", "jobs", "interview_questions", "errors"}

END == "__end__"
entry_point == "extract_job_requirements"

\* the edges with calculate_ats_score and find_gaps wired the other way round
edgesMiswired ==
    {<<"extract_job_requirements", "analyze_resume">>,
     <<"analyze_resume", "find_gaps">>,
     <<"find_gaps", "calculate_ats_score">>,
     <<"calculate_ats_score", "analyze_repetitions">>,
     <<"analyze_repetitions", "generate_roadmap">>,
     <<"generate_roadmap", "create_resources">>,
     <<"create_resources", "suggest_projects">>,
     <<"suggest_projects", "find_jobs">>,
     <<"find_jobs", "prepare_interview">>,
     <<"prepare_interview", "__end__">>}

\* workflow.add_edge(a, b)
edges ==
    {<<"extract_job_requirements", "analyze_resume">>,
     <<"analyze_resume", "calculate_ats_score">>,
     <<"calculate_ats_score", "find_gaps">>,
     <<"find_gaps", "analyze_repetitions">>,
     <<"analyze_repetitions", "generate_roadmap">>,
     <<"generate_roadmap", "create_resources">>,
     <<"create_resources", "suggest_projects">>,
     <<"suggest_projects", "find_jobs">>,
     <<"find_jobs", "prepare_interview">>,
     <<"prepare_interview", END>>}

\* the node the graph runs after node n
NextNode(n) == CHOOSE m \in {e[2] : e \in edges} : <<n, m>> \in edges

\* the nodes whose function calls self.llm.invoke()
AiNodes == DOMAIN AiResponses

\* errors: Annotated[List[str], add]; every other channel keeps the last value
Reducer(k, old, new) == IF k = "errors" THEN old \o new ELSE new

\* the update a node returns, applied to the channels: keys that are no
\* channel are dropped
ApplyWrites(chan, ret) ==
    [k \in SchemaKeys |-> IF k \in DOMAIN ret THEN Reducer(k, chan[k], ret[k]) ELSE chan[k]]

\* channels before the input is written
FreshChannels == [k \in SchemaKeys |-> <<>>]

\* initial_state of analyze()
InitialState(req) ==
    [k \in SchemaKeys |->
        CASE k = "resume_text" -> req.resume_text
          [] k = "job_description" -> req.job_description
          [] k \in {"learning_roadmap", "resources"} -> PyDict(EmptyDict)
          [] k \in {"projects", "jobs", "interview_questions"} -> PyList(EmptyList)
          [] k \in {"keyword_repetitions", "ats_score"} -> EmptyDict
          [] OTHER -> EmptyList]

\* one state object kept on the agent and used by every call
StateOfShared(r) == 1

\* the state object a call of analyze() works on: a fresh one per call
StateOf(r) == r

\* results of a node function: it raised, or it returned ret (failed: through
\* its except branch)
Raised(s) == [raised |-> TRUE, failed |-> FALSE, ret |-> s]
Returned(s) == [raised |-> FALSE, failed |-> FALSE, ret |-> s]
FellBack(s) == [raised |-> FALSE, failed |-> TRUE, ret |-> s]

\* state.get("errors", []) + [msg]
WithError(s, msg) == [s EXCEPT !["errors"] = Get(s, "errors", EmptyList) \o <<msg>>]

\* state.get("resume_analysis", {})
ResumeAnalysisOf(s) == Get(s, "resume_analysis", PyDict(EmptyDict))

(***************************************************************************)
(* Stage 1: _extract_job_requirements and its fallbacks                    *)
(***************************************************************************)
\* last index of the run of letters that starts at i
LetterRunEnd(text, i) ==
    CHOOSE j \in i..Len(text) :
        /\ \A m \in i..j : IsLetter(text[m])
        /\ j = Len(text) \/ ~IsLetter(text[j + 1])

\* set(re.findall(r'\b[A-Z][a-zA-Z]*\b', text))
CapitalisedWords(text) ==
    LET starts == {i \in 1..Len(text) :
                      /\ IsUpper(text[i])
                      /\ i = 1 \/ ~IsWordChar(text[i - 1])
                      /\ LET j == LetterRunEnd(text, i)
                         IN  j = Len(text) \/ ~IsWordChar(text[j + 1])}
    IN  {SubSeq(text, i, LetterRunEnd(text, i)) : i \in starts}

fallback_keyword_extraction(text, order) ==
    LET terms == {technical_terms[i] : i \in
                     {i \in 1..Len(technical_terms) :
                         IsSubstring(Lower(technical_terms[i]), Lower(text))}}
    IN  Take(ListOfSet(CapitalisedWords(text) \cup terms, order), 15)

fallback_skill_extraction(text) ==
    SelectSeq(common_skills, LAMBDA skill : IsSubstring(Lower(skill), Lower(text)))

extract_job_requirements(s, resp, order) ==
    LET analysis == resp.value
        keywords == Get(analysis.val, "keywords", EmptyList)
    IN  IF NoJson(resp) \/ analysis.kind # "dict"
        THEN FellBack([s EXCEPT
                 !["errors"] = <<"Job extraction error">>,
                 !["extracted_keywords"] = fallback_keyword_extraction(s["job_description"], order),
                 !["extracted_skills"] = fallback_skill_extraction(s["job_description"])])
        ELSE Returned([s EXCEPT
                 !["extracted_keywords"] =
                     SelectSeq(keywords, LAMBDA kw : ~InList(kw, excluded_keywords)),
                 !["extracted_skills"] = Get(analysis.val, "technical_skills", EmptyList)])

(***************************************************************************)
(* Stage 2: _analyze_resume and its fallback                               *)
(***************************************************************************)
\* the keys of the fallback analysis that later stages read
enhanced_fallback_analysis(resume_text) ==
    LET text_lower == Lower(resume_text)
        found == SelectSeq(skill_patterns, LAMBDA skill : IsSubstring(skill, text_lower))
        AnyIn(terms) == \E i \in 1..Len(terms) : IsSubstring(terms[i], text_lower)
    IN  [resume_skills |-> [i \in 1..Len(found) |-> Title(found[i])],
         experience_level |-> IF AnyIn(senior_terms) THEN "senior"
                              ELSE IF AnyIn(mid_terms) THEN "mid-level" ELSE "junior",
         domains |-> EmptyList]

analyze_resume(s, resp) ==
    IF NoJson(resp)
    THEN FellBack(("resume_analysis" :> PyDict(enhanced_fallback_analysis(s["resume_text"])))
                  @@ WithError(s, "Resume analysis error"))
    ELSE Returned(("resume_analysis" :> resp.value) @@ s)

(***************************************************************************)
(* Stage 3: _calculate_ats_score                                           *)
(***************************************************************************)
\* sum(1 for w in words if w in text)
CountIn(words, text) ==
    Cardinality({i \in 1..Len(words) : IsSubstring(words[i], text)})

base_score == 40

\* The score is summed in IEEE-754 doubles and truncated by int().  The exact
\* sum is taken here over the denominator 10 * kn * sn.  For list lengths up
\* to 8 the double sum differs from the exact one across an integer only for
\* the ratios below, where it lies just under an integral exact sum.
Float64Deficit(km, kn, sm, sn, sections, verbs) ==
    IF /\ sections = 0
       /\ verbs % 2 = 0
       /\ km > 0
       /\ \/ 3 * km = kn /\ 3 * sm = sn
          \/ 7 * km = 2 * kn /\ 7 * sm = sn
    THEN 1 ELSE 0

\* the keyword part taken from the match count, not the ratio, and the sum
\* not clamped
ScoreUnclamped(km, kn0, sm, sn0, sections, verbs) ==
    LET kn == Max(kn0, 1)
        sn == Max(sn0, 1)
        den == 10 * kn * sn
        keyword_score == 250 * km * kn * sn
        skills_score == Min(200 * sm * kn, 200 * kn * sn)
        format_score == Min(33 * sections, 100) * kn * sn
        action_score == Min(5 * verbs, 50) * kn * sn
    IN  (base_score * den + keyword_score + skills_score + format_score + action_score)
            \div den

\* total_score from the match counts: 40 + keyword_score + skills_score
\* + format_score + action_score, truncated and clamped
Score(km, kn0, sm, sn0, sections, verbs) ==
    LET kn == Max(kn0, 1)
        sn == Max(sn0, 1)
        den == 10 * kn * sn
        keyword_score == Min(250 * km * sn, 250 * kn * sn)
        skills_score == Min(200 * sm * kn, 200 * kn * sn)
        format_score == Min(33 * sections, 100) * kn * sn
        action_score == Min(5 * verbs, 50) * kn * sn
        total_score == (base_score * den + keyword_score + skills_score
                        + format_score + action_score) \div den
                       - Float64Deficit(km, kn, sm, sn, sections, verbs)
    IN  Max(0, Min(100, total_score))

\* the thresholds with > for >=
feedback_strict(total_score) ==
    IF total_score > 80 THEN "excellent"
    ELSE IF total_score > 70 THEN "good"
    ELSE IF total_score > 60 THEN "fair"
    ELSE "needs improvement"

\* the feedback text chosen for the score
feedback(total_score) ==
    IF total_score >= 80 THEN "excellent"
    ELSE IF total_score >= 70 THEN "good"
    ELSE IF total_score >= 60 THEN "fair"
    ELSE "needs improvement"

calculate_ats_score(s) ==
    LET resume_text == Lower(s["resume_text"])
        keywords == s["extracted_keywords"]
        skills == s["extracted_skills"]
        resume_analysis == ResumeAnalysisOf(s)
        listed == Get(resume_analysis.val, "resume_skills", EmptyList)
        job_keywords == [i \in 1..Len(keywords) |-> Lower(keywords[i])]
        keyword_matches == CountIn(job_keywords, resume_text)
        resume_skills == LowerSet(listed)
        job_skills_set == LowerSet(skills)
        skills_matches == Cardinality(job_skills_set \cap resume_skills)
        sections == CountIn(essential_sections, resume_text)
        verbs == CountIn(action_verbs, resume_text)
        total_score == Score(keyword_matches, Len(job_keywords), skills_matches,
                             Cardinality(job_skills_set), sections, verbs)
    IN  IF \/ ~AllStrings(keywords) \/ ~AllStrings(skills)
           \/ resume_analysis.kind # "dict" \/ ~AllStrings(listed)
        THEN Raised(s)
        ELSE Returned([s EXCEPT !["ats_score"] =
                 [score |-> total_score,
                  feedback |-> feedback(total_score),
                  keyword_matches |-> keyword_matches,
                  skills_matches |-> skills_matches,
                  sections |-> sections,
                  verbs |-> verbs]])

(***************************************************************************)
(* Stage 4: _find_gaps                                                     *)
(***************************************************************************)
\* stage 4 without the lower-casing of the job skills
find_gaps_case_sensitive(s, order) ==
    LET resume_analysis == ResumeAnalysisOf(s)
        listed == Get(resume_analysis.val, "resume_skills", EmptyList)
        resume_skills == LowerSet(listed)
        job_skills == {s["extracted_skills"][i] : i \in 1..Len(s["extracted_skills"])}
    IN  IF \/ resume_analysis.kind # "dict" \/ ~AllStrings(listed)
           \/ ~AllStrings(s["extracted_skills"])
        THEN Raised(s)
        ELSE Returned([s EXCEPT !["missing_skills"] =
                 Take(ListOfSet(job_skills \ resume_skills, order), 8)])

find_gaps(s, order) ==
    LET resume_analysis == ResumeAnalysisOf(s)
        listed == Get(resume_analysis.val, "resume_skills", EmptyList)
        resume_skills == LowerSet(listed)
        job_skills == LowerSet(s["extracted_skills"])
    IN  IF \/ resume_analysis.kind # "dict" \/ ~AllStrings(listed)
           \/ ~AllStrings(s["extracted_skills"])
        THEN Raised(s)
        ELSE Returned([s EXCEPT !["missing_skills"] =
                 Take(ListOfSet(job_skills \ resume_skills, order), 8)])

(***************************************************************************)
(* Stage 5: _analyze_keyword_repetitions and _get_synonyms                 *)
(***************************************************************************)
RECURSIVE Tokens(_)
\* the tokens of a text: its maximal runs of non-blank characters
Tokens(text) ==
    IF text = <<>> THEN <<>>
    ELSE IF Head(text) = " " THEN Tokens(Tail(text))
    ELSE LET n == IF \E i \in 1..Len(text) : text[i] = " "
                  THEN (CHOOSE i \in 1..Len(text) :
                           text[i] = " " /\ \A j \in 1..(i - 1) : text[j] # " ") - 1
                  ELSE Len(text)
         IN  <<SubSeq(text, 1, n)>> \o Tokens(SubSeq(text, n + 1, Len(text)))

\* the lemma names WordNet gives for a word (consulted only for a word with
\* fewer than 6 curated synonyms)
NoLemmas == <<>>

get_synonyms(word, lemmas) ==
    LET curated_synonyms == IF word \in DOMAIN tech_synonyms
                            THEN Take(tech_synonyms[word], 6) ELSE <<>>
        accepted == SelectSeq(lemmas, LAMBDA synonym :
                        /\ Lower(synonym) # Lower(word)
                        /\ Len(synonym) > 2
                        /\ ~InList(synonym, curated_synonyms))
        wordnet_synonyms == IF Len(curated_synonyms) < 6
                            THEN Take(accepted, 8 - Len(curated_synonyms)) ELSE <<>>
    IN  Take(curated_synonyms \o wordnet_synonyms, 8)

\* a word counted as overused from its second occurrence
analyze_keyword_repetitions_twice(s) ==
    LET tokens == Tokens(Lower(s["resume_text"]))
        Count(w) == Cardinality({i \in 1..Len(tokens) : tokens[i] = w})
        repetitions == {w \in {tokens[i] : i \in 1..Len(tokens)} :
                           w \in target_words /\ Len(w) > 3 /\ Count(w) > 1}
        suggested == {w \in repetitions : get_synonyms(w, NoLemmas) # <<>>}
    IN  Returned([s EXCEPT !["keyword_repetitions"] =
            [status |-> IF suggested # {} THEN "repetitions_found" ELSE "perfect_variety",
             repetitions |-> [w \in suggested |->
                                 [count |-> Count(w),
                                  synonyms |-> Take(get_synonyms(w, NoLemmas), 6)]],
             total_issues |-> Cardinality(suggested)]])

analyze_keyword_repetitions(s) ==
    LET tokens == Tokens(Lower(s["resume_text"]))
        Count(w) == Cardinality({i \in 1..Len(tokens) : tokens[i] = w})
        repetitions == {w \in {tokens[i] : i \in 1..Len(tokens)} :
                           w \in target_words /\ Len(w) > 3 /\ Count(w) > 2}
        suggested == {w \in repetitions : get_synonyms(w, NoLemmas) # <<>>}
    IN  Returned([s EXCEPT !["keyword_repetitions"] =
            [status |-> IF suggested # {} THEN "repetitions_found" ELSE "perfect_variety",
             repetitions |-> [w \in suggested |->
                                 [count |-> Count(w),
                                  synonyms |-> Take(get_synonyms(w, NoLemmas), 6)]],
             total_issues |-> Cardinality(suggested)]])

(***************************************************************************)
(* Stage 6: _generate_roadmap                                              *)
(***************************************************************************)
generate_roadmap(s, resp) ==
    LET skills == Take(s["missing_skills"], 6)
    IN  IF ~AllStrings(skills) THEN Raised(s)
        ELSE IF NoJson(resp)
        THEN FellBack([WithError(s, "Roadmap error") EXCEPT !["learning_roadmap"] =
                 PyDict([roadmap |-> [i \in 1..Len(skills) |->
                                         [skill |-> skills[i], order |-> i]]])])
        ELSE Returned([s EXCEPT !["learning_roadmap"] = resp.value])

(***************************************************************************)
(* Stage 7: _create_resources                                              *)
(***************************************************************************)
create_resources(s) ==
    LET top == Take(s["missing_skills"], 5)
        Key(skill) == RemoveChar(RemoveChar(Lower(skill), " "), ".")
    IN  IF ~AllStrings(top) THEN Raised(s)
        ELSE Returned([s EXCEPT !["resources"] =
                 PyDict([skill \in {top[i] : i \in 1..Len(top)} |->
                            [source |-> IF InList(Key(skill), resource_map_keys)
                                        THEN "curated" ELSE "generic",
                             \* the key of resource_map the list is stored under,
                             \* or the skill the generic titles name
                             entry |-> IF InList(Key(skill), resource_map_keys)
                                       THEN Key(skill) ELSE skill,
                             count |-> 3]])])

(***************************************************************************)
(* Stage 8: _suggest_projects and _generate_fallback_projects              *)
(***************************************************************************)
\* the fallback without its general-purpose project
generate_fallback_projects_no_default(missing_skills, current_skills) ==
    LET all_skills == [i \in 1..Len(missing_skills \o current_skills) |->
                          Lower((missing_skills \o current_skills)[i])]
        AnyOf(group) == \E i \in 1..Len(group) : InList(group[i], all_skills)
        projects == (IF AnyOf(web_skills) THEN <<"task-management-platform">> ELSE <<>>)
                    \o (IF AnyOf(data_skills) THEN <<"stock-prediction-system">> ELSE <<>>)
                    \o (IF AnyOf(cloud_skills) THEN <<"microservices-platform">> ELSE <<>>)
    IN  Take(projects, 2)

generate_fallback_projects(missing_skills, current_skills) ==
    LET all_skills == [i \in 1..Len(missing_skills \o current_skills) |->
                          Lower((missing_skills \o current_skills)[i])]
        AnyOf(group) == \E i \in 1..Len(group) : InList(group[i], all_skills)
        projects == (IF AnyOf(web_skills) THEN <<"task-management-platform">> ELSE <<>>)
                    \o (IF AnyOf(data_skills) THEN <<"stock-prediction-system">> ELSE <<>>)
                    \o (IF AnyOf(cloud_skills) THEN <<"microservices-platform">> ELSE <<>>)
    IN  Take(IF projects = <<>> THEN <<"personal-finance-manager">> ELSE projects, 2)

suggest_projects(s, resp) ==
    LET skills == Take(s["missing_skills"], 4)
        resume_analysis == ResumeAnalysisOf(s)
        current_skills == Get(resume_analysis.val, "resume_skills", EmptyList)
        projects == resp.value
    IN  IF \/ resume_analysis.kind # "dict"
           \/ ~AllStrings(skills) \/ ~AllStrings(Take(current_skills, 5))
        THEN Raised(s)
        ELSE IF NoJson(resp) \/ projects.kind = "none"
        THEN IF ~AllStrings(current_skills) THEN Raised(s)
             ELSE FellBack([WithError(s, "Projects error") EXCEPT !["projects"] =
                      PyList(generate_fallback_projects(skills, current_skills))])
        ELSE Returned([s EXCEPT !["projects"] = projects])

(***************************************************************************)
(* Stage 9: _find_jobs                                                     *)
(***************************************************************************)
find_jobs(s, resp) ==
    LET resume_analysis == ResumeAnalysisOf(s)
        current_skills == Get(resume_analysis.val, "resume_skills", EmptyList)
        experience_level == Get(resume_analysis.val, "experience_level", "junior")
        lowered == [i \in 1..Len(current_skills) |-> Lower(current_skills[i])]
        mock_jobs == IF InList(Str.python, lowered)
                     THEN <<[title |-> "Python Developer", level |-> ""],
                            [title |-> "Backend Engineer", level |-> ""]>>
                     ELSE IF InList(Str.javascript, lowered)
                     THEN <<[title |-> "Frontend Developer", level |-> ""],
                            [title |-> "Full Stack Developer", level |-> ""]>>
                     ELSE <<[title |-> "Software Developer", level |-> experience_level]>>
    IN  IF resume_analysis.kind # "dict" \/ ~AllStrings(Take(current_skills, 10))
        THEN Raised(s)
        ELSE IF NoJson(resp)
        THEN IF ~AllStrings(current_skills) THEN Raised(s)
             ELSE FellBack([WithError(s, "Job matching error") EXCEPT !["jobs"] =
                      PyList(mock_jobs)])
        ELSE Returned([s EXCEPT !["jobs"] = resp.value])

(***************************************************************************)
(* Stage 10: _prepare_interview and its fallback                           *)
(***************************************************************************)
generate_fallback_interview_questions(job_skills, job_keywords, experience_level) ==
    LET first == Take(job_skills, 3)
        per_skill == [i \in 1..Len(first) |->
                         IF InList(Lower(first[i]), coding_skills)
                         THEN "two-sum" ELSE "authentication"]
        design == IF job_skills = <<>> THEN <<>>
                  ELSE IF experience_level \in {"senior", "expert"}
                  THEN <<"url-shortener">> ELSE <<"sql-vs-nosql">>
        fixed == <<"reverse-linked-list", "longest-substring", "debug-merge">>
        shown == Lower(ReprList(job_keywords))
        AnyIn(group) == \E i \in 1..Len(group) : IsSubstring(group[i], shown)
        role == (IF AnyIn(api_keywords) THEN <<"api-security">> ELSE <<>>)
                \o (IF AnyIn(frontend_keywords) THEN <<"responsive-design">> ELSE <<>>)
                \o (IF AnyIn(data_keywords) THEN <<"query-optimization">> ELSE <<>>)
        questions == per_skill \o design \o fixed \o role
    IN  Take(questions \o (IF Len(questions) < 10 THEN <<"role-fit">> ELSE <<>>), 12)

prepare_interview(s, resp) ==
    LET job_skills == s["extracted_skills"]
        job_keywords == s["extracted_keywords"]
        resume_analysis == ResumeAnalysisOf(s)
        experience_level == Get(resume_analysis.val, "experience_level", "mid-level")
    IN  IF \/ resume_analysis.kind # "dict"
           \/ ~AllStrings(job_skills) \/ ~AllStrings(Take(job_keywords, 15))
        THEN Raised(s)
        ELSE IF NoJson(resp)
        THEN FellBack([WithError(s, "Interview questions error") EXCEPT
                 !["interview_questions"] =
                     PyList(generate_fallback_interview_questions(
                                job_skills, job_keywords, experience_level))])
        ELSE Returned([s EXCEPT !["interview_questions"] = resp.value])

(***************************************************************************)
(* The pipeline                                                            *)
(***************************************************************************)
\* workflow.add_node(name, function): the function node n runs on the state
\* dict s (resp: the AI response, for the nodes that ask for one)
NodeBody(n, s, resp, order) ==
    CASE n = "extract_job_requirements" -> extract_job_requirements(s, resp, order)
      [] n = "analyze_resume" -> analyze_resume(s, resp)
      [] n = "calculate_ats_score" -> calculate_ats_score(s)
      [] n = "find_gaps" -> find_gaps(s, order)
      [] n = "analyze_repetitions" -> analyze_keyword_repetitions(s)
      [] n = "generate_roadmap" -> generate_roadmap(s, resp)
      [] n = "create_resources" -> create_resources(s)
      [] n = "suggest_projects" -> suggest_projects(s, resp)
      [] n = "find_jobs" -> find_jobs(s, resp)
      [] n = "prepare_interview" -> prepare_interview(s, resp)

\* the dict analyze() returns
Report(final_state) ==
    [ats_score |-> final_state["ats_score"],
     skills_analysis |-> [missing_skills |-> final_state["missing_skills"],
                          keyword_repetitions |-> final_state["keyword_repetitions"]],
     learning_roadmap |-> final_state["learning_roadmap"],
     resources |-> final_state["resources"],
     projects |-> final_state["projects"],
     jobs |-> final_state["jobs"],
     interview_questions |-> final_state["interview_questions"],
     errors |-> Get(final_state, "errors", EmptyList)]

Runs == {1, 2}
NoReport == <<>>

\* the responses the AI client may give to node n in this behaviour
Menu(n) == {resp \in AiResponses[n] : resp.tag \in aiMenu}

\* analyze(): build the initial state and hand it to the graph
Analyze(r) ==
    /\ pc[r] = "idle"
    /\ request[r] # NoRequest
    /\ state' = [state EXCEPT ![StateOf(r)] =
                    ApplyWrites(FreshChannels, InitialState(request[r]))]
    /\ node' = [node EXCEPT ![r] = entry_point]
    /\ pc' = [pc EXCEPT ![r] = "ready"]
    /\ UNCHANGED <<hashOrder, aiMenu, request, local, started, failed, aiLog, report,
                   atsIn, atsOut, callIn, callOut>>

\* the graph reads the channels into the state dict of the next node and calls it
StartNode(r) ==
    /\ pc[r] = "ready"
    /\ local' = [local EXCEPT ![r] = state[StateOf(r)]]
    /\ started' = [started EXCEPT ![r] = Append(@, node[r])]
    /\ pc' = [pc EXCEPT ![r] = "running"]
    /\ UNCHANGED <<hashOrder, aiMenu, request, state, node, failed, aiLog, report,
                   atsIn, atsOut, callIn, callOut>>

\* the node function has run with result res: the graph applies the update
\* it returned and moves along the edge; an exception leaves invoke()
Commit(r, res, resps) ==
    /\ aiLog' = [aiLog EXCEPT ![r] = @ \o resps]
    /\ IF res.raised
       THEN /\ pc' = [pc EXCEPT ![r] = "aborted"]
            /\ UNCHANGED <<state, node, failed>>
       ELSE /\ state' = [state EXCEPT ![StateOf(r)] = ApplyWrites(@, res.ret)]
            /\ node' = [node EXCEPT ![r] = NextNode(@)]
            /\ failed' = [failed EXCEPT ![r] = IF res.failed THEN Append(@, node[r]) ELSE @]
            /\ pc' = [pc EXCEPT ![r] = IF NextNode(node[r]) = END THEN "returning" ELSE "ready"]
    /\ UNCHANGED <<hashOrder, aiMenu, request, local, started, report, atsIn, atsOut,
                   callIn, callOut>>

\* the node function of an AI-backed node runs and receives some response
RunAiNode(r) ==
    /\ pc[r] = "running"
    /\ \E resp \in Menu(node[r]) :
           Commit(r, NodeBody(node[r], local[r], resp, hashOrder[r]), <<resp>>)

\* the node function of a heuristic node runs
RunNode(r) ==
    /\ pc[r] = "running"
    /\ Commit(r, NodeBody(node[r], local[r], AiRaise, hashOrder[r]), <<>>)

ExtractJobRequirements(r) ==
    /\ node[r] = "extract_job_requirements"
    /\ RunAiNode(r)

AnalyzeResume(r) ==
    /\ node[r] = "analyze_resume"
    /\ RunAiNode(r)

CalculateAtsScore(r) ==
    /\ node[r] = "calculate_ats_score"
    /\ RunNode(r)

FindGaps(r) ==
    /\ node[r] = "find_gaps"
    /\ RunNode(r)

AnalyzeRepetitions(r) ==
    /\ node[r] = "analyze_repetitions"
    /\ RunNode(r)

GenerateRoadmap(r) ==
    /\ node[r] = "generate_roadmap"
    /\ RunAiNode(r)

CreateResources(r) ==
    /\ node[r] = "create_resources"
    /\ RunNode(r)

SuggestProjects(r) ==
    /\ node[r] = "suggest_projects"
    /\ RunAiNode(r)

FindJobs(r) ==
    /\ node[r] = "find_jobs"
    /\ RunAiNode(r)

PrepareInterview(r) ==
    /\ node[r] = "prepare_interview"
    /\ RunAiNode(r)

\* invoke() has returned the final state: analyze() builds the report
Return(r) ==
    /\ pc[r] = "returning"
    /\ report' = [report EXCEPT ![r] = Report(state[StateOf(r)])]
    /\ pc' = [pc EXCEPT ![r] = "done"]
    /\ UNCHANGED <<hashOrder, aiMenu, request, state, node, local, started, failed,
                   aiLog, atsIn, atsOut, callIn, callOut>>

NoAtsCall == [called |-> FALSE, raised |-> FALSE, ats_score |-> EmptyDict]

\* no direct call of another function is made, none has returned
NoCall == [fn |-> "none", arg |-> <<>>]
NoResult == [called |-> FALSE, value |-> <<>>]

Idle ==
    /\ state = [o \in Runs |-> FreshChannels]
    /\ pc = [r \in Runs |-> "idle"]
    /\ node = [r \in Runs |-> entry_point]
    /\ local = [r \in Runs |-> FreshChannels]
    /\ started = [r \in Runs |-> <<>>]
    /\ failed = [r \in Runs |-> <<>>]
    /\ aiLog = [r \in Runs |-> <<>>]
    /\ report = [r \in Runs |-> NoReport]

\* one request, any input, any AI behaviour
Init ==
    /\ \E order \in HashOrders : hashOrder = [r \in Runs |-> order]
    /\ aiMenu = AiTags
    /\ \E req \in Requests : request = [r \in Runs |-> IF r = 1 THEN req ELSE NoRequest]
    /\ Idle
    /\ atsIn = EmptyDict
    /\ atsOut = NoAtsCall
    /\ callIn = NoCall
    /\ callOut = NoResult

Next ==
    \E r \in Runs :
        \/ Analyze(r)
        \/ StartNode(r)
        \/ ExtractJobRequirements(r)
        \/ AnalyzeResume(r)
        \/ CalculateAtsScore(r)
        \/ FindGaps(r)
        \/ AnalyzeRepetitions(r)
        \/ GenerateRoadmap(r)
        \/ CreateResources(r)
        \/ SuggestProjects(r)
        \/ FindJobs(r)
        \/ PrepareInterview(r)
        \/ Return(r)

Spec == Init /\ [][Next]_vars

\* two requests in flight on the one agent (one process, so one hash order);
\* the AI client fails or answers well
InitConcurrent ==
    /\ hashOrder = [r \in Runs |-> HashUniverse]
    /\ aiMenu = {"raise", "ok"}
    /\ request = [r \in Runs |->
                    IF r = 1
                    THEN [resume_text |-> ResumeRepeats, job_description |-> JobPythonSql]
                    ELSE [resume_text |-> ResumePlain, job_description |-> JobPlain]]
    /\ Idle
    /\ atsIn = EmptyDict
    /\ atsOut = NoAtsCall
    /\ callIn = NoCall
    /\ callOut = NoResult

SpecConcurrent == InitConcurrent /\ [][Next]_vars

\* the same request sent to two processes of the service, each with its own
\* hash seed; every AI call fails
InitTwoProcesses ==
    /\ hashOrder \in [Runs -> HashOrders]
    /\ aiMenu = {"raise", "text"}
    /\ \E req \in Requests : request = [r \in Runs |-> req]
    /\ Idle
    /\ atsIn = EmptyDict
    /\ atsOut = NoAtsCall
    /\ callIn = NoCall
    /\ callOut = NoResult

SpecTwoProcesses == InitTwoProcesses /\ [][Next]_vars

(***************************************************************************)
(* Direct calls of _calculate_ats_score                                    *)
(***************************************************************************)
RECURSIVE ListsUpTo(_, _)
\* the lists of at most n entries drawn from pool
ListsUpTo(pool, n) ==
    IF n = 0 THEN {<<>>}
    ELSE LET shorter == ListsUpTo(pool, n - 1)
         IN  shorter \cup {Append(xs, x) : xs \in {ys \in shorter : Len(ys) = n - 1}, x \in pool}

KeywordPool == {Str.Python, Str.Rust}
SkillPool == {Str.Python, Str.SQL, Str.Go}
ResumeSkillLists ==
    {<<>>, <<Str.python>>, <<Str.Python, Str.sql>>, <<Str.Python, Str.sql, Str.Go>>}

AtsInputs ==
    {[resume_text |-> t, extracted_keywords |-> kws, extracted_skills |-> sks,
      resume_analysis |-> PyDict([resume_skills |-> rs]), ats_score |-> EmptyDict] :
        t \in ResumeTexts, kws \in ListsUpTo(KeywordPool, MaxKeywords),
        sks \in ListsUpTo(SkillPool, MaxSkills), rs \in ResumeSkillLists}

InitAts ==
    /\ hashOrder = [r \in Runs |-> HashUniverse]
    /\ aiMenu = {}
    /\ request = [r \in Runs |-> NoRequest]
    /\ Idle
    /\ atsIn \in AtsInputs
    /\ atsOut = NoAtsCall
    /\ callIn = NoCall
    /\ callOut = NoResult

\* _calculate_ats_score(state) called on a state dict
AtsCall ==
    /\ ~atsOut.called
    /\ LET res == calculate_ats_score(atsIn)
       IN  atsOut' = [called |-> TRUE, raised |-> res.raised,
                      ats_score |-> res.ret["ats_score"]]
    /\ UNCHANGED <<pipelineVars, atsIn, callIn, callOut>>

NextAts == AtsCall

SpecAts == InitAts /\ [][NextAts]_vars

(***************************************************************************)
(* Direct calls of the other functions of the agent                        *)
(***************************************************************************)
\* the pipeline at rest while a function is called directly
NoPipeline ==
    /\ hashOrder = [r \in Runs |-> HashUniverse]
    /\ aiMenu = {}
    /\ request = [r \in Runs |-> NoRequest]
    /\ Idle
    /\ atsIn = EmptyDict
    /\ atsOut = NoAtsCall

\* a call of fn on arg
Call(fn, arg) == [fn |-> fn, arg |-> arg]

\* the call returns value
ReturnValue(value) ==
    /\ ~callOut.called
    /\ callOut' = [called |-> TRUE, value |-> value]
    /\ UNCHANGED <<pipelineVars, atsIn, atsOut, callIn>>

\* the words resume texts are made of: two target words, a target word of
\* three letters, a word that is no target
TokenPool == {<<"d","e","v","e","l","o","p","e","d">>, <<"m","a","n","a","g","e","d">>,
              <<"l","e","d">>, <<"h","e","l","l","o">>}

RepetitionCalls ==
    {Call("_analyze_keyword_repetitions", JoinWith(<<" ">>, ws)) :
        ws \in ListsUpTo(TokenPool, MaxTokens)}

\* _analyze_keyword_repetitions(state) on a state with the resume text
KeywordRepetitionsCall ==
    /\ callIn.fn = "_analyze_keyword_repetitions"
    /\ LET s == InitialState([resume_text |-> callIn.arg, job_description |-> <<>>])
       IN  ReturnValue(analyze_keyword_repetitions(s).ret["keyword_repetitions"])

\* the lemma names the lexical lookup can give: a plain one, the word itself
\* in another case, a curated synonym of developed
LemmaPool == {<<"h","i","y","a">>, <<"H","e","l","l","o">>, <<"b","u","i","l","t">>}

\* the words looked up: one with curated synonyms, one without
SynonymCalls ==
    {Call("_get_synonyms", [word |-> w, lemmas |-> ls]) :
        w \in {<<"d","e","v","e","l","o","p","e","d">>, <<"h","e","l","l","o">>},
        ls \in ListsUpTo(LemmaPool, MaxLemmas)}

\* _get_synonyms(word), the lexical lookup answering with lemmas
GetSynonymsCall ==
    /\ callIn.fn = "_get_synonyms"
    /\ ReturnValue(get_synonyms(callIn.arg.word, callIn.arg.lemmas))

(***************************************************************************)
(* generate_ats_resume: the resume re-composer                             *)
(***************************************************************************)
\* the bullet character U+2022, one character of a text
Bullet == "<bullet>"

\* s.strip()
Strip(s) ==
    LET kept == {i \in 1..Len(s) : s[i] \notin {" ", "\n", "\t"}}
    IN  IF kept = {} THEN <<>>
        ELSE SubSeq(s, CHOOSE i \in kept : \A j \in kept : i <= j,
                       CHOOSE i \in kept : \A j \in kept : j <= i)

\* s.replace('\n', '<br>')
ReplaceNewlines(s) ==
    JoinWith(<<>>, SubSeq([i \in 1..Len(s) |->
                              IF s[i] = "\n" THEN <<"<","b","r",">">> ELSE <<s[i]>>],
                          1, Len(s)))

\* _generate_ats_summary("", job_description, analysis_data): the text is
\* empty, so it names no fresher term and no years of experience
generate_ats_summary(analysis_data) ==
    LET current_skills == Get(Get(analysis_data, "skills_analysis", EmptyDict),
                              "current_skills", EmptyList)
        top_skills == Take(current_skills, 4)
        skills_text == IF top_skills # <<>> THEN JoinWith(<<",", " ">>, top_skills)
                       ELSE <<"v","a","r","i","o","u","s"," ","t","e","c","h","n","o","l","o","g","i","e","s">>
    IN  <<"E","x","p","e","r","i","e","n","c","e","d"," ","p","r","o","f","e","s","s","i","o","n","a","l"," ","s","p","e","c","i","a","l","i","z","i","n","g"," ","i","n"," ">> \o skills_text
        \o <<"."," ","P","r","o","v","e","n"," ","t","r","a","c","k"," ","r","e","c","o","r","d"," ","o","f"," ","d","e","l","i","v","e","r","i","n","g"," ","h","i","g","h","-","q","u","a","l","i","t","y"," ","s","o","l","u","t","i","o","n","s"," ","a","n","d"," ","d","r","i","v","i","n","g"," ","b","u","s","i","n","e","s","s"," ","g","r","o","w","t","h"," ","t","h","r","o","u","g","h"," ","t","e","c","h","n","i","c","a","l"," ","e","x","c","e","l","l","e","n","c","e","."," ","S","e","e","k","i","n","g"," ","t","o"," ","l","e","v","e","r","a","g","e"," ","e","x","p","e","r","t","i","s","e"," ","i","n"," ","a"," ","c","h","a","l","l","e","n","g","i","n","g"," ","r","o","l","e"," ","t","h","a","t"," ","o","f","f","e","r","s"," ","o","p","p","o","r","t","u","n","i","t","i","e","s"," ","f","o","r"," ","p","r","o","f","e","s","s","i","o","n","a","l"," ","g","r","o","w","t","h",".">>

\* the answer of the AI is taken whatever its length
EnhancedOrAnyLength(fallback, response) ==
    IF response.raises THEN fallback
    ELSE LET enhanced == Strip(response.content)
         IN  IF enhanced = <<>> THEN fallback ELSE enhanced

\* the try block of the two AI-backed enhancers: the stripped response, or
\* fallback when the call raises or the response has fewer than 20
\* characters
EnhancedOr(fallback, response) ==
    IF response.raises THEN fallback
    ELSE LET enhanced == Strip(response.content)
         IN  IF enhanced = <<>> \/ Len(enhanced) < 20 THEN fallback ELSE enhanced

enhance_professional_summary(original_summary, analysis_data, response) ==
    IF original_summary = <<>> \/ Strip(original_summary) = <<>>
    THEN generate_ats_summary(analysis_data)
    ELSE EnhancedOr(original_summary, response)

\* the text handed to the AI for one experience entry
full_content(exp) ==
    LET original_description == Get(exp, "description", Get(exp, "workSummery", <<>>))
        achievements == Get(exp, "achievements", EmptyList)
    IN  IF achievements # <<>>
        THEN original_description \o <<"\n", "\n">>
             \o JoinWith(<<"\n">>, SubSeq([i \in 1..Len(achievements) |->
                                             <<Bullet, " ">> \o achievements[i]],
                                          1, Len(achievements)))
        ELSE original_description

\* every entry gets the same response of the AI
enhance_experience_section(original_experiences, response) ==
    LET entries == Take(original_experiences, 3)
    IN  SubSeq([i \in 1..Len(entries) |->
                  LET exp == entries[i]
                  IN  [title |-> Get(exp, "title", <<>>),
                       companyName |-> Get(exp, "company", Get(exp, "companyName", <<>>)),
                       city |-> Get(exp, "city", <<>>),
                       state |-> Get(exp, "state", <<>>),
                       startDate |-> Get(exp, "startDate", <<>>),
                       endDate |-> Get(exp, "endDate", <<"P","r","e","s","e","n","t">>),
                       currentlyWorking |->
                           Get(exp, "currentlyWorking",
                               Lower(Get(exp, "endDate", <<>>)) = Lower(<<"P","r","e","s","e","n","t">>)),
                       workSummery |->
                           EnhancedOr(ReplaceNewlines(full_content(exp)), response)]],
               1, Len(entries))

enhance_education_section(original_education) ==
    SubSeq([i \in 1..Len(original_education) |->
              LET edu == original_education[i]
              IN  [universityName |-> Get(edu, "institution", Get(edu, "universityName", <<>>)),
                   degree |-> Get(edu, "degree", <<>>),
                   major |-> Get(edu, "major", Get(edu, "field", <<>>)),
                   startDate |-> Get(edu, "startDate", <<>>),
                   endDate |-> Get(edu, "endDate", <<>>),
                   description |-> Get(edu, "coursework", Get(edu, "description", <<>>))]],
           1, Len(original_education))

RECURSIVE MergeSkills(_, _)
\* the merge loop: more[1], more[2], ... appended unless empty or present
MergeSkills(all_skills, more) ==
    IF more = <<>> THEN all_skills
    ELSE MergeSkills(IF more[1] # <<>> /\ ~InList(more[1], all_skills)
                     THEN Append(all_skills, more[1]) ELSE all_skills,
                     Tail(more))

\* the skills of a parsed resume are strings
enhance_skills_section_unlimited(original_skills, analysis_data) ==
    LET resume_analysis == Get(analysis_data, "resume_analysis", EmptyDict)
        analyzed_skills == Get(resume_analysis, "resume_skills", EmptyList)
        technologies == Get(resume_analysis, "technologies", EmptyList)
        all_skills == MergeSkills(original_skills, analyzed_skills \o technologies)
        kept == all_skills
    IN  SubSeq([i \in 1..Len(kept) |-> [name |-> kept[i]]], 1, Len(kept))

enhance_skills_section(original_skills, analysis_data) ==
    LET resume_analysis == Get(analysis_data, "resume_analysis", EmptyDict)
        analyzed_skills == Get(resume_analysis, "resume_skills", EmptyList)
        technologies == Get(resume_analysis, "technologies", EmptyList)
        all_skills == MergeSkills(original_skills, analyzed_skills \o technologies)
        kept == Take(all_skills, 20)
    IN  SubSeq([i \in 1..Len(kept) |-> [name |-> kept[i]]], 1, Len(kept))

enhance_projects_section(original_projects) ==
    LET entries == Take(original_projects, 2)
    IN  SubSeq([i \in 1..Len(entries) |->
                  LET proj == entries[i]
                      original_desc == Get(proj, "description", <<>>)
                      capital == IF original_desc # <<>> /\ ~IsUpper(original_desc[1])
                                 THEN <<UpperChar(original_desc[1])>> \o Tail(original_desc)
                                 ELSE original_desc
                      enhanced_description ==
                          IF capital # <<>> /\ capital[Len(capital)] # "."
                          THEN Append(capital, ".") ELSE capital
                  IN  [name |-> Get(proj, "name", <<>>),
                       description |-> enhanced_description,
                       technologies |-> Take(Get(proj, "technologies", EmptyList), 8),
                       achievements |-> Take(Get(proj, "achievements", EmptyList), 3)]],
               1, Len(entries))

enhance_certifications_section(original_certifications) ==
    LET entries == Take(original_certifications, 4)
    IN  SubSeq([i \in 1..Len(entries) |->
                  [name |-> Get(entries[i], "name", Get(entries[i], "title", <<>>)),
                   organization |-> Get(entries[i], "organization", <<>>),
                   date |-> Get(entries[i], "date", <<>>),
                   description |-> Get(entries[i], "description", <<>>)]],
               1, Len(entries))

enhance_awards_section(original_awards) ==
    LET entries == Take(original_awards, 3)
    IN  SubSeq([i \in 1..Len(entries) |->
                  [title |-> Get(entries[i], "title", Get(entries[i], "name", <<>>)),
                   organization |-> Get(entries[i], "organization", <<>>),
                   date |-> Get(entries[i], "date", <<>>),
                   description |-> Get(entries[i], "description", <<>>)]],
               1, Len(entries))

\* a language entry is a str or a dict, tagged as PyStr or PyDict
PyStr(s) == [kind |-> "str", val |-> s]

enhance_languages_section(original_languages) ==
    LET entries == Take(original_languages, 5)
    IN  SubSeq([i \in 1..Len(entries) |->
                  LET lang == entries[i]
                  IN  IF lang.kind = "str"
                      THEN [name |-> lang.val, proficiency |-> <<"F","l","u","e","n","t">>]
                      ELSE [name |-> Get(lang.val, "name", <<>>),
                            proficiency |-> Get(lang.val, "proficiency", <<"F","l","u","e","n","t">>)]],
               1, Len(entries))

enhance_volunteer_section(original_volunteer) ==
    LET entries == Take(original_volunteer, 3)
    IN  SubSeq([i \in 1..Len(entries) |->
                  [role |-> Get(entries[i], "role", <<>>),
                   organization |-> Get(entries[i], "organization", <<>>),
                   date |-> Get(entries[i], "date", <<>>),
                   description |-> Get(entries[i], "description", <<>>)]],
               1, Len(entries))

enhance_publications_section(original_publications) ==
    LET entries == Take(original_publications, 3)
    IN  SubSeq([i \in 1..Len(entries) |->
                  [title |-> Get(entries[i], "title", <<>>),
                   venue |-> Get(entries[i], "venue", <<>>),
                   date |-> Get(entries[i], "date", <<>>),
                   description |-> Get(entries[i], "description", <<>>)]],
               1, Len(entries))

\* ats_resume[key] = value, when the parsed section is not empty
WithSection(ats_resume, key, section, value) ==
    IF section # <<>> THEN (key :> value) @@ ats_resume ELSE ats_resume

\* generate_ats_resume on the outcome of _parse_entire_resume; the contact
\* fields, which come from the resume text and not from the parse, are left
\* out of the document
generate_ats_resume(parsed_resume, analysis_data, response) ==
    LET section(key) == Get(parsed_resume, key, EmptyList)
        d0 == [themeColor |-> <<"#","2","5","6","3","e","b">>]
        d1 == WithSection(d0, "summary", section("summary"),
                  enhance_professional_summary(section("summary"), analysis_data, response))
        d2 == WithSection(d1, "Experience", section("experience"),
                  enhance_experience_section(section("experience"), response))
        d3 == WithSection(d2, "education", section("education"),
                  enhance_education_section(section("education")))
        d4 == WithSection(d3, "skills", section("skills"),
                  enhance_skills_section(section("skills"), analysis_data))
        d5 == WithSection(d4, "projects", section("projects"),
                  enhance_projects_section(section("projects")))
        d6 == WithSection(d5, "certifications", section("certifications"),
                  enhance_certifications_section(section("certifications")))
        d7 == WithSection(d6, "awards", section("awards"),
                  enhance_awards_section(section("awards")))
        d8 == WithSection(d7, "languages", section("languages"),
                  enhance_languages_section(section("languages")))
        d9 == WithSection(d8, "volunteer", section("volunteer"),
                  enhance_volunteer_section(section("volunteer")))
    IN  WithSection(d9, "publications", section("publications"),
            enhance_publications_section(section("publications")))

\* the names of the entries of a parsed resume: entry i of a section is
\* named by the i-th letter
EntryNames ==
    <<"a","b","c","d","e","f","g","h","i","j","k","l","m",
      "n","o","p","q","r","s","t","u","v","w","x","y","z">>

EntryName(i) == <<EntryNames[i]>>

\* what _parse_entire_resume can return, from the AI parse or from the
\* fallback parse: every section with n entries, every project with m
\* technologies and m achievements; the summary is missing (n = 0), blank
\* (n = 1) or a text
ParsedResume(n, m) ==
    [summary |-> IF n = 0 THEN <<>> ELSE IF n = 1 THEN <<" ", " ">>
                 ELSE <<"E","n","g","i","n","e","e","r"," ","w","i","t","h"," ","7"," ","y","e","a","r","s">>,
     experience |->
         SubSeq([i \in 1..n |->
                   [title |-> EntryName(i),
                    company |-> EntryName(i),
                    endDate |-> IF i = 1 THEN <<"p","r","e","s","e","n","t">> ELSE <<"2","0","2","0">>,
                    description |-> <<"C","u","t"," ","c","o","s","t"," ","3","0">>,
                    achievements |-> IF i % 2 = 1 THEN <<<<"L","e","d"," ","5">>>> ELSE <<>>]], 1, n),
     education |->
         SubSeq([i \in 1..n |-> [institution |-> EntryName(i), degree |-> <<"B","S">>]], 1, n),
     skills |-> SubSeq([i \in 1..n |-> EntryName(i)], 1, n),
     projects |->
         SubSeq([i \in 1..n |->
                   [name |-> EntryName(i),
                    description |-> <<"b","u","i","l","t"," ","a","p","i">>,
                    technologies |-> SubSeq([j \in 1..m |-> EntryName(j)], 1, m),
                    achievements |-> SubSeq([j \in 1..m |-> EntryName(j)], 1, m)]], 1, n),
     certifications |-> SubSeq([i \in 1..n |-> [title |-> EntryName(i)]], 1, n),
     awards |-> SubSeq([i \in 1..n |-> [name |-> EntryName(i)]], 1, n),
     languages |->
         SubSeq([i \in 1..n |->
                   IF i % 2 = 1 THEN PyStr(EntryName(i))
                   ELSE PyDict([name |-> EntryName(i)])], 1, n),
     volunteer |-> SubSeq([i \in 1..n |-> [role |-> EntryName(i)]], 1, n),
     publications |-> SubSeq([i \in 1..n |-> [title |-> EntryName(i)]], 1, n)]

\* the analysis handed over by the caller: none, or one that names a skill
\* the resume lists, an empty skill and a technology it does not list
AnalysisInputs ==
    {EmptyDict,
     [resume_analysis |-> [resume_skills |-> <<<<"c">>, <<>>>>,
                           technologies |-> <<<<"G","o">>>>],
      skills_analysis |-> [current_skills |-> <<<<"c">>, <<"G","o">>>>]]}

\* what the AI answers to an enhancement prompt: the call raises, the answer
\* is too short, the answer has no number, the answer has a number the
\* original does not have
EnhanceResponses ==
    {[raises |-> TRUE, content |-> <<>>],
     [raises |-> FALSE, content |-> <<"o","k">>],
     [raises |-> FALSE, content |-> <<" ","B","u","i","l","t"," ","a","n","d"," ","s","h","i","p","p","e","d"," ","s","e","r","v","i","c","e","s"," ">>],
     [raises |-> FALSE, content |-> <<"R","a","i","s","e","d"," ","r","e","v","e","n","u","e"," ","b","y"," ","5","0"," ","p","e","r","c","e","n","t">>]}

ComposeCalls ==
    {Call("generate_ats_resume",
          [parsed_resume |-> ParsedResume(n, m), analysis_data |-> a, response |-> r]) :
        n \in 0..MaxEntries, m \in 0..MaxHighlights,
        a \in AnalysisInputs, r \in EnhanceResponses}

\* generate_ats_resume(resume_text, job_description, analysis_data)
GenerateAtsResumeCall ==
    /\ callIn.fn = "generate_ats_resume"
    /\ ReturnValue(generate_ats_resume(callIn.arg.parsed_resume, callIn.arg.analysis_data,
                                       callIn.arg.response))

(***************************************************************************)
(* _clean_ai_content and _clean_text_content                               *)
(***************************************************************************)
\* the backquote character, one character of a text
Backtick == "<backtick>"

\* the characters \s matches
Whitespace == {" ", "\n", "\t"}

\* how many characters from position i on are in S, position i included
RunLength(content, S, i) ==
    CHOOSE n \in 0..(Len(content) + 1 - i) :
        /\ \A l \in i..(i + n - 1) : content[l] \in S
        /\ (i + n > Len(content) \/ content[i + n] \notin S)

\* whether piece stands in content at position i
StandsAt(content, piece, i) ==
    /\ i >= 1
    /\ i + Len(piece) - 1 <= Len(content)
    /\ SubSeq(content, i, i + Len(piece) - 1) = piece

JsonFence == <<Backtick, Backtick, Backtick, "j", "s", "o", "n">>
Fence == <<Backtick, Backtick, Backtick>>

\* the two substitutions every JSON-parsing stage applies to the stripped
\* response: re.sub(r'^```json\s*', '', content), re.sub(r'\s*```$', '', content)
StripFences(content) ==
    LET \* re.sub(r'^```json\s*', '', content)
        opened == IF StandsAt(content, JsonFence, 1)
                  THEN SubSeq(content, Len(JsonFence) + 1
                                       + RunLength(content, Whitespace, Len(JsonFence) + 1),
                              Len(content))
                  ELSE content
        \* re.sub(r'\s*```$', '', content): $ is the end of the text, or the
        \* place before a newline that ends the text
        last == IF opened # <<>> /\ opened[Len(opened)] = "\n"
                   /\ StandsAt(opened, Fence, Len(opened) - 3)
                THEN Len(opened) - 1 ELSE Len(opened)
        first == CHOOSE i \in 1..(last - 2) :
                    /\ \A l \in i..(last - 3) : opened[l] \in Whitespace
                    /\ (i = 1 \/ opened[i - 1] \notin Whitespace)
        closed == IF StandsAt(opened, Fence, last - 2)
                  THEN SubSeq(opened, 1, first - 1) \o SubSeq(opened, last + 1, Len(opened))
                  ELSE opened
    IN  closed

clean_ai_content(content) ==
    Strip(SelectSeq(StripFences(content), LAMBDA c : c \notin {"*", "#"}))

\* the match of c{1,most}(.*?)c{1,most} that starts at position i:
\* <<length of the opening run, position of the closing run, length of the
\* closing run>>, or <<>> when there is none
PairMatch(content, c, most, i) ==
    IF content[i] # c THEN <<>>
    ELSE LET Run(k) == Min(most, RunLength(content, {c}, k))
             Closers(open) ==
                 {j \in (i + open)..Len(content) :
                     /\ content[j] = c
                     /\ \A l \in (i + open)..(j - 1) : content[l] # "\n"}
             opens == {o \in 1..Run(i) : Closers(o) # {}}
         IN  IF opens = {} THEN <<>>
             ELSE LET open == CHOOSE o \in opens : \A p \in opens : p <= o
                      close == CHOOSE j \in Closers(open) : \A k \in Closers(open) : j <= k
                  IN  <<open, close, Run(close)>>

RECURSIVE StripPairs(_, _, _, _)
\* re.sub(r'c{1,most}(.*?)c{1,most}', r'\1', content), read from position i
StripPairs(content, c, most, i) ==
    IF i > Len(content) THEN <<>>
    ELSE LET m == PairMatch(content, c, most, i)
         IN  IF m = <<>> THEN <<content[i]>> \o StripPairs(content, c, most, i + 1)
             ELSE SubSeq(content, i + m[1], m[2] - 1)
                  \o StripPairs(content, c, most, m[2] + m[3])

RECURSIVE StripHeaders(_, _)
\* re.sub(r'#{1,6}\s*', '', content), read from position i
StripHeaders(content, i) ==
    IF i > Len(content) THEN <<>>
    ELSE IF content[i] # "#" THEN <<content[i]>> \o StripHeaders(content, i + 1)
    ELSE LET marks == Min(6, RunLength(content, {"#"}, i))
         IN  StripHeaders(content, i + marks + RunLength(content, Whitespace, i + marks))

\* the match of !?\[([^\]]+)\]\([^\)]+\) that starts at position i:
\* <<position of [, position of ], position of the closing )>>, or <<>>
LinkMatch(content, i) ==
    LET open == IF content[i] = "[" THEN i
                ELSE IF content[i] = "!" /\ StandsAt(content, <<"[">>, i + 1) THEN i + 1
                ELSE 0
        close == open + 1 + RunLength(content, {content[l] : l \in 1..Len(content)} \ {"]"},
                                      open + 1)
        end == close + 2 + RunLength(content, {content[l] : l \in 1..Len(content)} \ {")"},
                                     close + 2)
    IN  IF /\ open > 0
           /\ close >= open + 2
           /\ StandsAt(content, <<"]", "(">>, close)
           /\ end >= close + 3
           /\ StandsAt(content, <<")">>, end)
        THEN <<open, close, end>> ELSE <<>>

RECURSIVE StripLinks(_, _)
\* re.sub(r'!?\[([^\]]+)\]\([^\)]+\)', r'\1', content), read from position i
StripLinks(content, i) ==
    IF i > Len(content) THEN <<>>
    ELSE LET m == LinkMatch(content, i)
         IN  IF m = <<>> THEN <<content[i]>> \o StripLinks(content, i + 1)
             ELSE SubSeq(content, m[1] + 1, m[2] - 1) \o StripLinks(content, m[3] + 1)

\* the length of the match of ^\s*[-*+]\s+ (bullet) or of ^\s*\d+\.\s+
\* (number) that starts at position i, 0 when there is none
MarkerMatch(content, numbered, i) ==
    LET indent == RunLength(content, Whitespace, i)
        mark == IF numbered
                THEN LET digits == RunLength(content, Digits, i + indent)
                     IN  IF digits > 0 /\ StandsAt(content, <<".">>, i + indent + digits)
                         THEN digits + 1 ELSE 0
                ELSE IF i + indent <= Len(content) /\ content[i + indent] \in {"-", "*", "+"}
                     THEN 1 ELSE 0
        gap == RunLength(content, Whitespace, i + indent + mark)
    IN  IF (i = 1 \/ content[i - 1] = "\n") /\ mark > 0 /\ gap > 0
        THEN indent + mark + gap ELSE 0

RECURSIVE StripMarkers(_, _, _)
\* re.sub of the bullet or the number pattern with flags=re.MULTILINE, read
\* from position i
StripMarkers(content, numbered, i) ==
    IF i > Len(content) THEN <<>>
    ELSE LET m == MarkerMatch(content, numbered, i)
         IN  IF m = 0 THEN <<content[i]>> \o StripMarkers(content, numbered, i + 1)
             ELSE StripMarkers(content, numbered, i + m)

RECURSIVE CollapseRuns(_, _, _, _, _)
\* re.sub(r'S{least,}', to, content), read from position i
CollapseRuns(content, S, least, to, i) ==
    IF i > Len(content) THEN <<>>
    ELSE LET run == RunLength(content, S, i)
         IN  IF run >= least THEN to \o CollapseRuns(content, S, least, to, i + run)
             ELSE <<content[i]>> \o CollapseRuns(content, S, least, to, i + 1)

\* the bullet, the arrow, the small square, the check mark, the ballot x and
\* the star, each one character of a text
SpecialMarks == {Bullet, "<arrow>", "<square>", "<check>", "<ballot x>", "<star>"}

clean_text_content(content) ==
    IF content = <<>> THEN <<>>
    ELSE LET bold == StripPairs(content, "*", 2, 1)
             headers == StripHeaders(bold, 1)
             code == StripPairs(headers, Backtick, 3, 1)
             links == StripLinks(code, 1)
             italic == StripPairs(links, "_", 2, 1)
             bullets == StripMarkers(italic, FALSE, 1)
             numbers == StripMarkers(bullets, TRUE, 1)
             breaks == CollapseRuns(numbers, {"\n"}, 3, <<"\n", "\n">>, 1)
             spaces == CollapseRuns(breaks, Whitespace, 2, <<" ">>, 1)
         IN  Strip(SelectSeq(spaces, LAMBDA c : c \notin SpecialMarks))

\* the pieces the cleaned texts are made of
CleanPieces ==
    {<<"a">>, <<" ">>, <<"\n">>, <<"*">>, <<"#">>, <<"_">>, <<"-", " ">>, <<"1", ".", " ">>,
     <<Backtick>>, Fence, JsonFence, <<Bullet>>, <<"[", "a", "]", "(", "b", ")">>}

CleanTexts == {JoinWith(<<>>, ps) : ps \in ListsUpTo(CleanPieces, MaxPieces)}

CleanCalls ==
    {Call(fn, text) : fn \in {"_clean_ai_content", "_clean_text_content"},
                      text \in CleanTexts}

\* _clean_ai_content(content)
CleanAiContentCall ==
    /\ callIn.fn = "_clean_ai_content"
    /\ ReturnValue(clean_ai_content(callIn.arg))

\* _clean_text_content(content)
CleanTextContentCall ==
    /\ callIn.fn = "_clean_text_content"
    /\ ReturnValue(clean_text_content(callIn.arg))

\* the places that parse an AI response as JSON: stages 1, 2, 6, 8, 9, 10,
\* the resume parse and the experience extraction
ParseSites ==
    {"_extract_job_requirements", "_analyze_resume", "_generate_roadmap", "_suggest_projects",
     "_find_jobs", "_prepare_interview", "_parse_entire_resume", "_extract_experience_ats"}

\* the text a parse site hands to json.loads for the response of the AI
json_loads_input(site, response) ==
    LET content == Strip(response)
    IN  IF site \in {"_suggest_projects", "_prepare_interview"}
        THEN clean_ai_content(content)
        ELSE StripFences(content)

\* responses of the AI: a JSON value, bare or fenced, with white space
\* around it; the value names the skill C#, holds a star, or neither
JsonResponses ==
    {pre \o body \o post :
        pre \in {<<>>, JsonFence \o <<"\n">>, <<" ">> \o JsonFence},
        body \in {<<"[", "\"", "C", "#", "\"", "]">>, <<"[", "\"", "a", "*", "b", "\"", "]">>,
                  <<"[", "\"", "a", "\"", "]">>},
        post \in {<<>>, <<"\n">> \o Fence, <<"\n">> \o Fence \o <<"\n">>, <<" ">>}}

ParseCalls ==
    {Call("json.loads", [site |-> site, response |-> response]) :
        site \in ParseSites, response \in JsonResponses}

\* a parse site receives the response and calls json.loads
JsonLoadsCall ==
    /\ callIn.fn = "json.loads"
    /\ ReturnValue(json_loads_input(callIn.arg.site, callIn.arg.response))

(***************************************************************************)
(* The re module: a pattern is matched by backtracking, the alternatives   *)
(* tried in the order of the pattern                                       *)
(***************************************************************************)
\* the character classes of the patterns
InClass(name, c) ==
    CASE name = "\\w" -> IsWordChar(c)
      [] name = "\\d" -> c \in Digits
      [] name = "\\s" -> c \in Whitespace
      [] name = "." -> c # "\n"
      [] name = "[\\s\\S]" -> TRUE
      [] name = "[\\w.-]" -> IsWordChar(c) \/ c \in {".", "-"}
      [] name = "[-.\\s]" -> c \in {"-", "."} \cup Whitespace

Class(name) == [op |-> "class", name |-> name]
Chr(c) == [op |-> "chr", c |-> c, ignorecase |-> FALSE]
Cat(parts) == [op |-> "cat", parts |-> parts]
Alt(parts) == [op |-> "alt", parts |-> parts]
\* x{min,max} for a pattern x of one character; max = -1 is no upper limit
Rep(of, min, max) == [op |-> "rep", of |-> of, min |-> min, max |-> max, lazy |-> FALSE]
\* x*? for a pattern x of one character
LazyStar(of) == [op |-> "rep", of |-> of, min |-> 0, max |-> -1, lazy |-> TRUE]
\* x?
Opt(of) == [op |-> "opt", of |-> of]
\* (?=x)
Ahead(of) == [op |-> "ahead", of |-> of]
\* the opening or closing parenthesis of a group
Mark == [op |-> "mark"]
\* the characters of s, in any case under re.I
Lit(s, ignorecase) == [op |-> "lit", s |-> s, ignorecase |-> ignorecase]

RECURSIVE Ends(_, _, _)
RECURSIVE EndsFrom(_, _, _)
\* the ends of the matches of re that start at one of the positions ms
EndsFrom(re, text, ms) ==
    IF Len(ms) = 0 THEN <<>>
    ELSE IF Len(ms) = 1 THEN Ends(re, text, ms[1])
    ELSE LET half == Len(ms) \div 2
         IN  EndsFrom(re, text, SubSeq(ms, 1, half))
             \o EndsFrom(re, text, SubSeq(ms, half + 1, Len(ms)))

\* the matches of re that start at position m.at of the text, in the order
\* backtracking finds them: for each, the position after it and the group
\* boundaries passed so far
Ends(re, text, m) ==
    CASE re.op = "class" ->
           IF m.at <= Len(text) /\ InClass(re.name, text[m.at])
           THEN <<[m EXCEPT !.at = m.at + 1]>> ELSE <<>>
      [] re.op = "chr" ->
           IF /\ m.at <= Len(text)
              /\ \/ text[m.at] = re.c
                 \/ re.ignorecase /\ LowerChar(text[m.at]) = LowerChar(re.c)
           THEN <<[m EXCEPT !.at = m.at + 1]>> ELSE <<>>
      [] re.op = "lit" ->
           IF /\ m.at + Len(re.s) - 1 <= Len(text)
              /\ \A k \in 1..Len(re.s) :
                    \/ text[m.at + k - 1] = re.s[k]
                    \/ re.ignorecase /\ LowerChar(text[m.at + k - 1]) = LowerChar(re.s[k])
           THEN <<[m EXCEPT !.at = m.at + Len(re.s)]>> ELSE <<>>
      [] re.op = "cat" ->
           IF Len(re.parts) = 0 THEN <<m>>
           ELSE EndsFrom([re EXCEPT !.parts = Tail(re.parts)], text,
                         Ends(Head(re.parts), text, m))
      [] re.op = "alt" ->
           IF Len(re.parts) = 0 THEN <<>>
           ELSE Ends(Head(re.parts), text, m)
                \o Ends([re EXCEPT !.parts = Tail(re.parts)], text, m)
      [] re.op = "rep" ->
           LET Fits(i) == Len(Ends(re.of, text, [m EXCEPT !.at = i])) > 0
               \* how many characters from m.at on fit, up to max
               limit == IF re.max = -1 THEN Len(text) + 1 - m.at
                        ELSE Min(re.max, Len(text) + 1 - m.at)
               run == CHOOSE n \in 0..limit :
                          /\ \A i \in m.at..(m.at + n - 1) : Fits(i)
                          /\ (n = limit \/ ~Fits(m.at + n))
               count == run - re.min + 1
           IN  IF run < re.min THEN <<>>
               ELSE SubSeq([k \in 1..count |->
                               [m EXCEPT !.at = IF re.lazy THEN m.at + re.min + k - 1
                                                ELSE m.at + run + 1 - k]],
                           1, count)
      [] re.op = "opt" -> Ends(re.of, text, m) \o <<m>>
      [] re.op = "ahead" -> IF Len(Ends(re.of, text, m)) > 0 THEN <<m>> ELSE <<>>
      [] re.op = "mark" -> <<[m EXCEPT !.marks = Append(m.marks, m.at)]>>

NoMatch == [found |-> FALSE, start |-> 0, end |-> 0, marks |-> <<>>]

\* re.search(pattern, text): the first match at the leftmost position that
\* has one; end is the position after the match
re_search(re, text) ==
    LET From(i) == Ends(re, text, [at |-> i, marks |-> <<>>])
        starts == {i \in 1..(Len(text) + 1) : Len(From(i)) > 0}
    IN  IF starts = {} THEN NoMatch
        ELSE LET i == CHOOSE i \in starts : \A j \in starts : i <= j
                 first == Head(From(i))
             IN  [found |-> TRUE, start |-> i, end |-> first.at, marks |-> first.marks]

\* match.group(0)
Group0(text, match) == SubSeq(text, match.start, match.end - 1)
\* match.group(n) of a pattern whose groups do not nest
Group(text, match, n) == SubSeq(text, match.marks[2 * n - 1], match.marks[2 * n] - 1)

\* s.replace(word, '') for a word that no part of itself begins again
RemoveWord(s, word) ==
    LET n == Len(word)
        BeginsAt(j) == j >= 1 /\ j + n - 1 <= Len(s) /\ SubSeq(s, j, j + n - 1) = word
        kept == SelectSeq(SubSeq([i \in 1..Len(s) |-> i], 1, Len(s)),
                          LAMBDA i : \A j \in (i - n + 1)..i : ~BeginsAt(j))
    IN  SubSeq([k \in 1..Len(kept) |-> s[kept[k]]], 1, Len(kept))

(***************************************************************************)
(* _extract_contact_info_enhanced and _comprehensive_fallback_parsing      *)
(***************************************************************************)
\* r'[\w.-]+@[\w.-]+\.\w+'
email_regex ==
    Cat(<<Rep(Class("[\\w.-]"), 1, -1), Chr("@"), Rep(Class("[\\w.-]"), 1, -1), Chr("."),
          Rep(Class("\\w"), 1, -1)>>)

\* r'(\+?\d{1,3}[-.\s]?)?\(?\d{3}\)?[-.\s]?\d{3}[-.\s]?\d{4}'
phone_regex ==
    Cat(<<Opt(Cat(<<Opt(Chr("+")), Rep(Class("\\d"), 1, 3), Opt(Class("[-.\\s]"))>>)),
          Opt(Chr("(")), Rep(Class("\\d"), 3, 3), Opt(Chr(")")), Opt(Class("[-.\\s]")),
          Rep(Class("\\d"), 3, 3), Opt(Class("[-.\\s]")), Rep(Class("\\d"), 4, 4)>>)

\* the email and the phone of the returned dict. Its keys are firstName,
\* lastName, email, phone and address; the fallback parse reads email and
\* phone, and fullName, which is not a key
extract_contact_info_enhanced(resume_text) ==
    LET email_match == re_search(email_regex, resume_text)
        phone_match == re_search(phone_regex, resume_text)
    IN  [email |-> IF email_match.found THEN Group0(resume_text, email_match) ELSE <<>>,
         phone |-> IF phone_match.found THEN Group0(resume_text, phone_match) ELSE <<>>]

\* r'summary[\s\S]*?(?=skills|experience|education|projects)' with re.I
summary_regex ==
    Cat(<<Lit(<<"s","u","m","m","a","r","y">>, TRUE), LazyStar(Class("[\\s\\S]")),
          Ahead(Alt(<<Lit(<<"s","k","i","l","l","s">>, TRUE),
                      Lit(<<"e","x","p","e","r","i","e","n","c","e">>, TRUE),
                      Lit(<<"e","d","u","c","a","t","i","o","n">>, TRUE),
                      Lit(<<"p","r","o","j","e","c","t","s">>, TRUE)>>))>>)

\* r'Bachelor.*?Computer Science.*?Air University Islamabad.*?(\d{4})\s*-\s*(\d{4})'
\* with re.I
edu_regex ==
    Cat(<<Lit(<<"B","a","c","h","e","l","o","r">>, TRUE), LazyStar(Class(".")),
          Lit(<<"C","o","m","p","u","t","e","r"," ","S","c","i","e","n","c","e">>, TRUE),
          LazyStar(Class(".")),
          Lit(<<"A","i","r"," ","U","n","i","v","e","r","s","i","t","y"," ","I","s","l","a","m",
                "a","b","a","d">>,
              TRUE),
          LazyStar(Class(".")),
          Mark, Rep(Class("\\d"), 4, 4), Mark, Rep(Class("\\s"), 0, -1), Chr("-"),
          Rep(Class("\\s"), 0, -1), Mark, Rep(Class("\\d"), 4, 4), Mark>>)

\* the summary of a resume text without a summary section
default_summary ==
    <<"A","I"," ","E","n","g","i","n","e","e","r"," ","s","k","i","l","l","e","d"," ","i","n"," ",
      "b","u","i","l","d","i","n","g"," ","i","n","t","e","l","l","i","g","e","n","t"," ","a","g",
      "e","n","t","s"," ","a","n","d"," ","L","L","M","-","p","o","w","e","r","e","d"," ","s","y",
      "s","t","e","m","s"," ","u","s","i","n","g"," ","L","a","n","g","G","r","a","p","h",","," ",
      "R","A","G",","," ","a","n","d"," ","p","r","o","m","p","t"," ","e","n","g","i","n","e","e",
      "r","i","n","g",".">>

\* the programming languages looked for, as [needle, skill]
programming_languages ==
    <<<<<<"p","y","t","h","o","n">>, <<"P","y","t","h","o","n">>>>,
      <<<<"j","a","v","a","s","c","r","i","p","t">>, <<"J","a","v","a","S","c","r","i","p","t">>>>,
      <<<<"d","a","r","t">>, <<"D","a","r","t">>>>,
      <<<<"c","+","+">>, <<"C","+","+">>>>>>

frameworks ==
    <<<<"R","e","a","c","t">>,
      <<"N","o","d","e",".","j","s">>,
      <<"E","x","p","r","e","s","s">>,
      <<"F","l","u","t","t","e","r">>,
      <<"L","a","n","g","G","r","a","p","h">>,
      <<"R","A","G">>,
      <<"F","a","s","t","A","P","I">>,
      <<"P","y","d","a","n","t","i","c">>,
      <<"M","o","n","g","o","D","B">>,
      <<"F","i","r","e","b","a","s","e">>,
      <<"O","r","a","c","l","e">>,
      <<"C","h","r","o","m","a","D","B">>,
      <<"Q","d","r","a","n","t">>,
      <<"M","i","l","v","u","s">>>>

tools ==
    <<<<"R","E","S","T"," ","A","P","I","s">>,
      <<"W","e","b"," ","S","c","r","a","p","i","n","g">>,
      <<"G","i","t">>,
      <<"G","i","t","H","u","b">>,
      <<"A","g","i","l","e"," ","M","e","t","h","o","d","o","l","o","g","i","e","s">>,
      <<"D","o","c","k","e","r">>,
      <<"D","o","c","k","e","r"," ","C","o","m","p","o","s","e">>>>

\* the skills of the three vocabularies that the resume text names
fallback_skills(resume_text) ==
    LET lower == Lower(resume_text)
        Names(list) == [i \in 1..Len(list) |-> list[i][2]]
    IN  Names(SelectSeq(programming_languages, LAMBDA l : IsSubstring(l[1], lower)))
        \o SelectSeq(frameworks, LAMBDA framework : IsSubstring(Lower(framework), lower))
        \o SelectSeq(tools, LAMBDA tool :
                        IsSubstring(RemoveChar(Lower(tool), " "), RemoveChar(lower, " ")))

\* the education entry of a resume text that the pattern matches
matched_education(startDate, endDate) ==
    [degree |-> <<"B","a","c","h","e","l","o","r"," ","o","f"," ","S","c","i","e","n","c","e"," ",
                 "i","n"," ","C","o","m","p","u","t","e","r"," ","S","c","i","e","n","c","e">>,
     major |-> <<"C","o","m","p","u","t","e","r"," ","S","c","i","e","n","c","e">>,
     institution |-> <<"A","i","r"," ","U","n","i","v","e","r","s","i","t","y"," ","I","s","l",
                       "a","m","a","b","a","d">>,
     startDate |-> startDate,
     endDate |-> endDate,
     coursework |->
       <<"P","F",","," ","O","O","P",","," ","D","a","t","a"," ","S","t","r","u","c","t","u","r",
         "e","s",","," ","D","e","s","i","g","n"," ","a","n","d"," ","A","n","a","l","y","s","i",
         "s"," ","o","f"," ","A","l","g","o","r","i","t","h","m","s",","," ","W","e","b"," ","D",
         "e","v","e","l","o","p","m","e","n","t",","," ","M","o","b","i","l","e"," ","C","o","m",
         "p","u","t","i","n","g",","," ","D","a","t","a","b","a","s","e"," ","S","y","s","t","e",
         "m","s">>]

\* the education entry of every other resume text
default_education ==
    [degree |-> <<"B","a","c","h","e","l","o","r"," ","o","f"," ","S","c","i","e","n","c","e"," ",
                 "i","n"," ","C","o","m","p","u","t","e","r"," ","S","c","i","e","n","c","e">>,
     major |-> <<"C","o","m","p","u","t","e","r"," ","S","c","i","e","n","c","e">>,
     institution |-> <<"A","i","r"," ","U","n","i","v","e","r","s","i","t","y"," ","I","s","l",
                       "a","m","a","b","a","d">>,
     startDate |-> <<"2","0","2","2">>,
     endDate |-> <<"2","0","2","6">>,
     coursework |->
       <<"C","o","m","p","u","t","e","r"," ","S","c","i","e","n","c","e"," ","f","u","n","d","a",
         "m","e","n","t","a","l","s"," ","a","n","d"," ","a","d","v","a","n","c","e","d"," ","t",
         "o","p","i","c","s">>]

qalbcare_project ==
    [name |->
       <<"Q","a","l","b","C","a","r","e"," ","-"," ","I","s","l","a","m","i","c"," ","E","m","o",
         "t","i","o","n","a","l"," ","T","h","e","r","a","p","y"," ","M","u","l","t","i"," ","A",
         "g","e","n","t"," ","O","r","c","h","e","s","t","r","a","t","i","o","n">>,
     description |->
       <<"D","e","v","e","l","o","p","e","d"," ","p","s","y","c","h","o","l","o","g","i","c","a",
         "l"," ","t","h","e","r","a","p","y"," ","a","g","e","n","t"," ","t","h","a","t"," ","d",
         "e","t","e","c","t","s"," ","u","s","e","r"," ","m","o","o","d"," ","w","i","t","h"," ",
         "9","6","%","+"," ","a","c","c","u","r","a","c","y"," ","a","n","d"," ","d","e","l","i",
         "v","e","r","s"," ","o","v","e","r"," ","1","5","0","+"," ","t","a","i","l","o","r","e",
         "d"," ","r","e","s","p","o","n","s","e","s"," ","r","e","c","o","r","d","e","d"," ","i",
         "n"," ","Q","u","r","a","n",","," ","H","a","d","i","t","h",","," ","a","n","d"," ","I",
         "s","l","a","m","i","c"," ","Q","A"," ","s","y","s","t","e","m","."," ","I","n","t","e",
         "g","r","a","t","e","d"," ","a"," ","r","e","a","l","-","t","i","m","e"," ","v","o","i",
         "c","e"," ","c","a","l","l","i","n","g"," ","a","g","e","n","t"," ","f","o","r"," ","t",
         "h","e","r","a","p","y"," ","s","e","s","s","i","o","n","s",","," ","b","u","i","l","t",
         " ","M","u","l","t","i","j","a","b","a"," ","u","s","e","d"," ","b","y"," ","7","5","%",
         " ","t","e","s","t"," ","u","s","e","r","s"," ","f","o","r"," ","d","a","i","l","y"," ",
         "s","e","l","f","-","r","e","f","l","e","c","t","i","o","n"," ","a","n","d"," ","Q","a",
         "l","b","D","a","t","a"," ","t","o"," ","a","s","s","e","s","s"," ","t","h","e"," ","s",
         "p","i","r","i","t","u","a","l"," ","s","t","a","t","e"," ","o","f"," ","t","h","e"," ",
         "h","e","a","r","t"," ","a","n","d"," ","t","r","i","g","g","e","r"," ","a"," ","p","e",
         "r","s","o","n","a","l","i","z","e","d"," ","7","-","d","a","y"," ","N","o","o","r"," ",
         "j","o","u","r","n","e","y","."," ","P","o","w","e","r","e","d"," ","b","y"," ","F","l",
         "u","t","t","e","r",","," ","L","a","n","g","G","r","a","p","h",","," ","F","a","s","t",
         "A","P","I",","," ","V","a","p","i",","," ","F","i","r","e","b","a","s","e"," ","f","o",
         "r"," ","s","e","c","u","r","e"," ","s","t","o","r","a","g","e"," ","a","n","d"," ","e",
         "m","o","t","i","o","n","a","l"," ","t","r","a","c","k","i","n","g",".">>,
     technologies |->
       <<<<"F","l","u","t","t","e","r">>,
         <<"L","a","n","g","G","r","a","p","h">>,
         <<"F","a","s","t","A","P","I">>,
         <<"V","a","p","i">>,
         <<"F","i","r","e","b","a","s","e">>,
         <<"C","h","r","o","m","a","D","B">>,
         <<"G","e","m","i","n","i">>,
         <<"O","p","e","n","A","I">>>>,
     achievements |->
       <<<<"A","c","h","i","e","v","e","d"," ","9","6","%","+"," ","a","c","c","u","r","a","c",
           "y"," ","i","n"," ","m","o","o","d"," ","d","e","t","e","c","t","i","o","n">>,
         <<"D","e","l","i","v","e","r","e","d"," ","1","5","0","+"," ","t","a","i","l","o","r",
           "e","d"," ","I","s","l","a","m","i","c"," ","r","e","s","p","o","n","s","e","s">>,
         <<"B","u","i","l","t"," ","b","y"," ","7","5","%"," ","o","f"," ","t","e","s","t"," ",
           "u","s","e","r","s"," ","f","o","r"," ","d","a","i","l","y"," ","u","s","e">>,
         <<"I","n","t","e","g","r","a","t","e","d"," ","r","e","a","l","-","t","i","m","e"," ",
           "v","o","i","c","e"," ","c","a","l","l","i","n","g"," ","f","o","r"," ","t","h","e",
           "r","a","p","y">>>>]

hireywirey_project ==
    [name |->
       <<"H","i","r","e","y","W","i","r","e","y"," ","-"," ","A","I","-","P","o","w","e","r","e",
         "d"," ","R","e","s","u","m","e"," ","&"," ","C","a","r","e","e","r"," ","O","p","t","i",
         "m","i","z","a","t","i","o","n"," ","A","g","e","n","t">>,
     description |->
       <<"A","I","-","P","o","w","e","r","e","d"," ","R","e","s","u","m","e"," ","&"," ","C","a",
         "r","e","e","r"," ","O","p","t","i","m","i","z","a","t","i","o","n"," ","A","g","e","n",
         "t"," ","w","i","t","h"," ","L","a","n","g","G","r","a","p","h",","," ","F","a","s","t",
         "A","P","I",","," ","W","e","b"," ","S","c","r","a","p","i","n","g",","," ","G","e","m",
         "i","n","i","."," ","E","n","g","i","n","e","e","r","e","d"," ","a"," ","3","-","u","s",
         "e","r"," ","r","e","s","u","m","e"," ","a","g","a","i","n","s","t"," ","j","o","b"," ",
         "d","e","s","c","r","i","p","t","i","o","n","s",","," ","c","a","l","c","u","l","a","t",
         "e","s"," ","A","T","S"," ","s","c","o","r","e","s"," ","(","7","5","%","+"," ","a","c",
         "c","u","r","a","c","y",")",","," ","i","d","e","n","t","i","f","i","e","s"," ","s","k",
         "i","l","l"," ","g","a","p","s",","," ","a","n","d"," ","g","e","n","e","r","a","t","e",
         "s"," ","p","e","r","s","o","n","a","l","i","z","e","d"," ","2","-","3"," ","r","e","s",
         "u","m","e","-","r","e","a","d","y"," ","p","r","o","j","e","c","t"," ","s","u","g","g",
         "e","s","t","i","o","n","s","."," ","D","y","n","a","m","i","c","a","l","l","y"," ","s",
         "c","r","a","p","e","s"," ","s","k","i","l","l","-","r","e","l","e","v","a","n","t"," ",
         "r","e","s","o","u","r","c","e","s"," ","w","i","t","h"," ","2","-","3"," ","w","e","e",
         "k","l","y"," ","p","r","o","j","e","c","t"," ","s","u","g","g","e","s","t","i","o","n",
         "s"," ","a","n","d"," ","u","s","e","s"," ","p","r","o","m","p","t"," ","e","n","g","i",
         "n","e","e","r","i","n","g"," ","f","o","r"," ","a","u","t","o","m","a","t","e","d"," ",
         "r","e","s","u","m","e"," ","f","o","r","m","a","t","t","i","n","g",","," ","i","m","p",
         "r","o","v","i","n","g"," ","u","s","e","r"," ","A","T","S"," ","s","u","c","c","e","s",
         "s",".">>,
     technologies |->
       <<<<"R","e","a","c","t">>,
         <<"L","a","n","g","G","r","a","p","h">>,
         <<"F","a","s","t","A","P","I">>,
         <<"W","e","b"," ","S","c","r","a","p","i","n","g">>,
         <<"G","e","m","i","n","i">>>>,
     achievements |->
       <<<<"E","n","g","i","n","e","e","r","e","d"," ","u","s","e","r"," ","r","e","s","u","m",
           "e"," ","a","n","a","l","y","s","i","s"," ","a","g","a","i","n","s","t"," ","j","o",
           "b"," ","d","e","s","c","r","i","p","t","i","o","n","s">>,
         <<"A","c","h","i","e","v","e","d"," ","7","5","%","+"," ","a","c","c","u","r","a","c",
           "y"," ","i","n"," ","A","T","S"," ","s","c","o","r","e"," ","c","a","l","c","u","l",
           "a","t","i","o","n">>,
         <<"G","e","n","e","r","a","t","e","d"," ","p","e","r","s","o","n","a","l","i","z","e",
           "d"," ","p","r","o","j","e","c","t"," ","s","u","g","g","e","s","t","i","o","n","s">>,
         <<"A","u","t","o","m","a","t","e","d"," ","r","e","s","u","m","e"," ","f","o","r","m",
           "a","t","t","i","n","g"," ","w","i","t","h"," ","p","r","o","m","p","t"," ","e","n",
           "g","i","n","e","e","r","i","n","g">>>>]

comprehensive_fallback_parsing(resume_text) ==
    LET contact_info == extract_contact_info_enhanced(resume_text)
        summary_match == re_search(summary_regex, resume_text)
        summary == IF summary_match.found
                   THEN Strip(RemoveWord(Group0(resume_text, summary_match),
                                         <<"S","u","m","m","a","r","y">>))
                   ELSE default_summary
        edu_match == re_search(edu_regex, resume_text)
        education == IF edu_match.found
                     THEN <<matched_education(Group(resume_text, edu_match, 1),
                                              Group(resume_text, edu_match, 2))>>
                     ELSE <<default_education>>
        lower == Lower(resume_text)
        projects ==
            (IF IsSubstring(<<"q","a","l","b","c","a","r","e">>, lower)
             THEN <<qalbcare_project>> ELSE <<>>)
            \o (IF \/ IsSubstring(<<"h","i","r","e","y","w","i","r","e","y">>, lower)
                   \/ IsSubstring(<<"h","i","r","e","y"," ","w","i","r","e","y">>, lower)
                THEN <<hireywirey_project>> ELSE <<>>)
    IN  [personalInfo |->
           [fullName |-> Get(contact_info, "fullName",
                             <<"S","y","e","d"," ","M","o","z","a","m","i","l"," ","S","h","a","h"
                               >>),
            jobTitle |-> <<"A","I"," ","E","n","g","i","n","e","e","r">>,
            email |-> Get(contact_info, "email",
                          <<"s","y","e","d","m","o","z","a","m","i","l","s","h","a","h","9","9",
                            "@","g","m","a","i","l",".","c","o","m">>),
            phone |-> Get(contact_info, "phone",
                          <<"+","9","2","-","3","0","3","5","1","4","9","4","1","5">>),
            location |-> <<"P","a","k","i","s","t","a","n">>],
         summary |-> summary,
         experience |-> <<>>,
         education |-> education,
         skills |-> fallback_skills(resume_text),
         projects |-> projects]

\* the lines resume texts are made of: a name, a title and a country, an
\* address, a phone number, a summary, a skills section, a degree, a project,
\* and a line that names none of these
ResumeLines ==
    <<<<"S","y","e","d"," ","M","o","z","a","m","i","l"," ","S","h","a","h">>,
      <<"A","I"," ","E","n","g","i","n","e","e","r",","," ","P","a","k","i","s","t","a","n">>,
      <<"j","a","n","e",".","r","o","e","@","m","a","i","l",".","e","x","a","m","p","l","e",".",
        "o","r","g">>,
      <<"P","h","o","n","e"," ","(","5","5","5",")"," ","1","2","3","-","4","5","6","7">>,
      <<"S","u","m","m","a","r","y"," ","B","u","i","l","d","s"," ","A","P","I","s">>,
      <<"S","k","i","l","l","s"," ","P","y","t","h","o","n"," ","D","o","c","k","e","r">>,
      <<"B","a","c","h","e","l","o","r"," ","o","f"," ","C","o","m","p","u","t","e","r"," ","S",
        "c","i","e","n","c","e",","," ","A","i","r"," ","U","n","i","v","e","r","s","i","t","y",
        " ","I","s","l","a","m","a","b","a","d",","," ","2","0","1","9"," ","-"," ","2","0","2",
        "3">>,
      <<"Q","a","l","b","C","a","r","e"," ","a","p","p">>,
      <<"C","o","o","k">>>>

RECURSIVE LinesOf(_, _)
\* the lines i..Len(ResumeLines) that are in the set chosen
LinesOf(chosen, i) ==
    IF i > Len(ResumeLines) THEN <<>>
    ELSE (IF i \in chosen THEN <<ResumeLines[i]>> ELSE <<>>) \o LinesOf(chosen, i + 1)

\* every choice of at most MaxLines of the lines, in the order above, one
\* per line of the text
FallbackCalls ==
    {Call("_comprehensive_fallback_parsing", JoinWith(<<"\n">>, LinesOf(chosen, 1))) :
        chosen \in {c \in SUBSET (1..Len(ResumeLines)) : Cardinality(c) <= MaxLines}}

\* _comprehensive_fallback_parsing(resume_text)
ComprehensiveFallbackParsingCall ==
    /\ callIn.fn = "_comprehensive_fallback_parsing"
    /\ ReturnValue(comprehensive_fallback_parsing(callIn.arg))

\* the job skills stage 4 can report as missing: lower-cased, three of them
\* keys of resource_map, one with a space in it
MissingSkillPool ==
    {Str.python, Str.sql, <<"n","o","d","e",".","j","s">>, <<"d","o","c","k","e","r">>,
     <<"g","o">>, <<"r","e","s","t"," ","a","p","i">>}

RECURSIVE DistinctListsUpTo(_, _)
\* the lists of at most n entries of the pool without a repeated entry
DistinctListsUpTo(pool, n) ==
    IF n = 0 THEN {<<>>}
    ELSE LET shorter == DistinctListsUpTo(pool, n - 1)
         IN  shorter \cup
             UNION {{Append(xs, x) : x \in pool \ {xs[i] : i \in 1..Len(xs)}} :
                       xs \in {ys \in shorter : Len(ys) = n - 1}}

ResourceCalls ==
    {Call("_create_resources", missing) :
        missing \in DistinctListsUpTo(MissingSkillPool, MaxMissing)}

\* _create_resources(state) on a state with the missing skills of stage 4
CreateResourcesCall ==
    /\ callIn.fn = "_create_resources"
    /\ LET s == [InitialState(NoRequest) EXCEPT !["missing_skills"] = callIn.arg]
       IN  ReturnValue(create_resources(s))

\* the order list() gives the job skills of a direct call of stage 4
GapOrder ==
    HashUniverse \o
    <<<<"n","o","d","e",".","j","s">>, <<"d","o","c","k","e","r">>,
      <<"r","e","s","t"," ","a","p","i">>, <<"a","w","s">>, <<"r","e","a","c","t">>>>

\* nine job skills, no two alike when lower-cased: more than the cap of 8
ManySkills ==
    <<Str.Python, Str.SQL, Str.Go, Str.JavaScript, <<"N","o","d","e",".","j","s">>,
      <<"D","o","c","k","e","r">>, <<"R","E","S","T"," ","A","P","I">>, <<"A","W","S">>,
      <<"R","e","a","c","t">>>>

\* the job skills of stage 1 (a skill can come twice, also in another case)
\* and the resume skills of stage 2
PartitionCalls ==
    {Call("_calculate_ats_score, _find_gaps", [extracted_skills |-> sks, resume_skills |-> rs]) :
        sks \in ListsUpTo(SkillPool \cup {Str.python}, MaxSkills) \cup {ManySkills},
        rs \in ResumeSkillLists}

\* _calculate_ats_score(state) and then _find_gaps(state), as the graph runs
\* them, on a state with the skills of the job and of the resume
SkillPartitionCall ==
    /\ callIn.fn = "_calculate_ats_score, _find_gaps"
    /\ LET s == [resume_text |-> <<>>, extracted_keywords |-> EmptyList,
                 extracted_skills |-> callIn.arg.extracted_skills,
                 resume_analysis |-> PyDict([resume_skills |-> callIn.arg.resume_skills]),
                 ats_score |-> EmptyDict, missing_skills |-> EmptyList]
           scored == calculate_ats_score(s)
           gaps == find_gaps(scored.ret, GapOrder)
       IN  ReturnValue([raised |-> scored.raised \/ gaps.raised, ret |-> gaps.ret])

\* one direct call, of any of the functions, on any of the inputs
InitCalls ==
    /\ NoPipeline
    /\ callIn \in RepetitionCalls \cup SynonymCalls \cup ComposeCalls
                 \cup CleanCalls \cup ParseCalls \cup ResourceCalls
                 \cup PartitionCalls \cup FallbackCalls
    /\ callOut = NoResult

NextCalls ==
    \/ KeywordRepetitionsCall
    \/ GetSynonymsCall
    \/ GenerateAtsResumeCall
    \/ CleanAiContentCall
    \/ CleanTextContentCall
    \/ JsonLoadsCall
    \/ CreateResourcesCall
    \/ SkillPartitionCall
    \/ ComprehensiveFallbackParsingCall

SpecCalls == InitCalls /\ [][NextCalls]_vars

(***************************************************************************)
(* main.py: the HTTP layer                                                 *)
(***************************************************************************)
\* a text of n characters
Filler(n) == SubSeq([i \in 1..n |-> "a"], 1, n)

\* an uploaded or decoded document: readable says whether PdfReader can
\* open it, text is what its pages hold
Pdf(text) == [readable |-> TRUE, text |-> text]
NotPdf == [readable |-> FALSE, text |-> <<>>]

RECURSIVE SplitLines(_)
\* text.split('\n')
SplitLines(text) ==
    LET breaks == {i \in 1..Len(text) : text[i] = "\n"}
    IN  IF breaks = {} THEN <<text>>
        ELSE LET first == CHOOSE i \in breaks : \A j \in breaks : i <= j
             IN  <<SubSeq(text, 1, first - 1)>>
                 \o SplitLines(SubSeq(text, first + 1, Len(text)))

\* extract_text_from_pdf(pdf_bytes): the lines of the pages, stripped, the
\* empty ones dropped; raises on a document PdfReader cannot open
extract_text_from_pdf(pdf) ==
    IF ~pdf.readable THEN [raises |-> TRUE, text |-> <<>>]
    ELSE LET lines == SplitLines(Strip(pdf.text))
             stripped == SubSeq([i \in 1..Len(lines) |-> Strip(lines[i])], 1, Len(lines))
         IN  [raises |-> FALSE,
              text |-> JoinWith(<<"\n">>, SelectSeq(stripped, LAMBDA line : line # <<>>))]

\* validate_pdf(pdf_bytes)
validate_pdf(pdf) == pdf.readable

\* the outcome of career_agent.analyze(): it raises, or returns its report
AnalyzeRaises == [raises |-> TRUE, report |-> <<>>]
AnalyzeReturns(ats_score) ==
    [raises |-> FALSE,
     report |-> [ats_score |-> ats_score,
                 skills_analysis |-> [missing_skills |-> <<>>,
                                      keyword_repetitions |-> <<>>]]]

\* analyze_resume_job(resume, job_description): the status of the response
\* and the calls of analyze() it made
analyze_resume_job(filename, resume, job_description, analysis) ==
    LET Answer(status, calls) == [status |-> status, started |-> calls]
        extracted == extract_text_from_pdf(resume)
        resume_text == extracted.text
        suffix == <<".","p","d","f">>
    IN  IF ~(Len(filename) >= Len(suffix)
             /\ Lower(SubSeq(filename, Len(filename) - Len(suffix) + 1, Len(filename)))
                    = suffix)
        THEN Answer(400, <<>>)
        ELSE IF ~validate_pdf(resume) THEN Answer(400, <<>>)
        ELSE IF extracted.raises THEN Answer(400, <<>>)
        ELSE IF Strip(resume_text) = <<>> THEN Answer(400, <<>>)
        ELSE IF Len(Strip(resume_text)) < 100 THEN Answer(400, <<>>)
        ELSE IF Strip(job_description) = <<>> THEN Answer(400, <<>>)
        ELSE IF Len(Strip(job_description)) < 50 THEN Answer(400, <<>>)
        ELSE Answer(IF analysis.raises THEN 500 ELSE 200,
                    <<[resume_text |-> resume_text, job_description |-> job_description]>>)

\* a score as the fraction num / den
Fraction(num, den) == [num |-> num, den |-> den]

\* a < b, for fractions
Less(a, b) == a.num * b.den < b.num * a.den

\* calculate_candidate_score: the three components are added in hundredths
\* of 1 / max(total_required_skills, 1), exactly, where the code adds floats
calculate_candidate_score(ats_score, skills_analysis, candidate) ==
    LET ats == IF ats_score # EmptyDict /\ "overall_score" \in DOMAIN ats_score
               THEN ats_score["overall_score"]
               ELSE IF ats_score # EmptyDict /\ "score" \in DOMAIN ats_score
               THEN ats_score["score"] ELSE 0
        matched_skills == Get(skills_analysis, "matched_skills", EmptyList)
        skill_gaps == Get(skills_analysis, "skill_gaps", EmptyList)
        total_required_skills == Len(matched_skills) + Len(skill_gaps)
        den == 100 * Max(total_required_skills, 1)
        skills == IF skills_analysis # EmptyDict /\ total_required_skills > 0
                  THEN 35 * Len(matched_skills) ELSE 0
        profile_score ==
            (IF Get(candidate, "name", <<>>) # <<>> THEN 5 ELSE 0)
            + (IF InList("@", Get(candidate, "email", <<>>)) THEN 5 ELSE 0)
            + (IF Get(candidate, "skills", <<>>) # <<>> THEN 10 ELSE 0)
            + (IF Len(Get(candidate, "skills", <<>>)) >= 5 THEN 5 ELSE 0)
        num == (40 * ats + profile_score) * Max(total_required_skills, 1) + skills
    IN  Fraction(Min(Max(num, 0), den), den)

\* round(score * 100)
Percent(score) ==
    LET whole == (100 * score.num) \div score.den
        rest == 2 * ((100 * score.num) % score.den)
    IN  IF rest > score.den \/ (rest = score.den /\ whole % 2 = 1) THEN whole + 1 ELSE whole

\* what the loop of analyze_candidates does with one candidate: it appends
\* an entry, skips the candidate, or raises out of the loop; started lists
\* the calls of analyze() made
ProcessCandidate(candidate, job_description, analysis) ==
    LET Keys(ks) == ks \subseteq DOMAIN candidate
        Outcome(kind, entry, calls) == [kind |-> kind, entry |-> entry, started |-> calls]
        extracted == extract_text_from_pdf(candidate.resumeBase64)
        call == <<[resume_text |-> extracted.text, job_description |-> job_description]>>
        \* the except branch: the entry with the default score
        Failed(calls) ==
            IF Keys({"id", "name", "email", "skills"})
            THEN Outcome("entry",
                         [_id |-> candidate.id, name |-> candidate.name,
                          email |-> candidate.email, skills |-> candidate.skills,
                          score |-> Fraction(3, 10), atsScore |-> 30],
                         calls)
            ELSE Outcome("raise", <<>>, calls)
    IN  IF ~Keys({"resumeBase64"}) \/ extracted.raises THEN Failed(<<>>)
        ELSE IF Strip(extracted.text) = <<>>
        THEN IF Keys({"name"}) THEN Outcome("skip", <<>>, <<>>) ELSE Failed(<<>>)
        ELSE IF analysis.raises \/ ~Keys({"id", "name", "email", "skills"}) THEN Failed(call)
        ELSE LET score == calculate_candidate_score(
                              Get(analysis.report, "ats_score", EmptyDict),
                              Get(analysis.report, "skills_analysis", EmptyDict), candidate)
             IN  Outcome("entry",
                         [_id |-> candidate.id, name |-> candidate.name,
                          email |-> candidate.email, skills |-> candidate.skills,
                          score |-> score, atsScore |-> Percent(score)],
                         call)

RECURSIVE SortedByScore(_)
\* sorted(entries, key=lambda x: x['score'], reverse=True): entries of equal
\* score keep their order
SortedByScore(entries) ==
    IF entries = <<>> THEN <<>>
    ELSE LET before == SortedByScore(SubSeq(entries, 1, Len(entries) - 1))
             last == entries[Len(entries)]
             ahead == Cardinality({i \in 1..Len(before) : ~Less(before[i].score, last.score)})
         IN  SubSeq(before, 1, ahead) \o <<last>> \o SubSeq(before, ahead + 1, Len(before))

RECURSIVE AnalyzeLoop(_, _, _, _, _, _)
\* the loop over request.candidates from candidate i on; analyses[i] is what
\* analyze() does when it is called for candidate i
AnalyzeLoop(candidates, job_description, analyses, i, analyzed_candidates, calls) ==
    IF i > Len(candidates)
    THEN [status |-> 200,
          top_candidates |-> Take(SortedByScore(analyzed_candidates), 5),
          analyzed |-> Len(analyzed_candidates),
          started |-> calls]
    ELSE LET outcome == ProcessCandidate(candidates[i], job_description, analyses[i])
         IN  IF outcome.kind = "raise"
             THEN [status |-> 500, top_candidates |-> <<>>, analyzed |-> 0,
                   started |-> calls \o outcome.started]
             ELSE AnalyzeLoop(candidates, job_description, analyses, i + 1,
                              IF outcome.kind = "entry"
                              THEN Append(analyzed_candidates, outcome.entry)
                              ELSE analyzed_candidates,
                              calls \o outcome.started)

\* analyze_candidates(request): the response, the number of candidates the
\* message reports, and the calls of analyze() made
analyze_candidates(req, analyses) ==
    AnalyzeLoop(req.candidates, req.job_description, analyses, 1, <<>>, <<>>)

\* the candidates of a request: unreadable has a resume that is no PDF,
\* blank a PDF without text, fails a resume analyze() raises on, nameless
\* an unreadable resume and no name, scored a resume analyze() scores
CandidateKinds == {"unreadable", "blank", "fails", "nameless", "scored"}

\* candidate i of a request: i - 1 skills, an email address when i is odd
CandidateOf(i, kind) ==
    LET profile == [id |-> i,
                    email |-> IF i % 2 = 1 THEN <<"a", "@", "b">> ELSE <<"a", "b">>,
                    skills |-> SubSeq([k \in 1..(i - 1) |-> EntryName(k)], 1, i - 1),
                    resumeBase64 |->
                        IF kind \in {"unreadable", "nameless"} THEN NotPdf
                        ELSE IF kind = "blank" THEN Pdf(<<" ", "\n", " ">>)
                        ELSE Pdf(<<" ","c","v"," ","\n","\n"," ","t","e","x","t"," ">>)]
    IN  IF kind = "nameless" THEN profile ELSE [name |-> EntryName(i)] @@ profile

\* what analyze() does for candidate i: the ATS scores are 60 and, so that
\* not every composite score is 1, the small 0, 1 and 2
AnalysisOf(i, kind) ==
    IF kind = "fails" THEN AnalyzeRaises
    ELSE AnalyzeReturns([score |-> IF i % 2 = 0 THEN 60 ELSE i % 3])

\* the job description of the batch requests
JobText == <<"p","y","t","h","o","n"," ","j","o","b">>

\* the request for one candidate of each of kinds, and what analyze() does
\* for each
BatchCall(job, kinds) ==
    Call("analyze_candidates",
         [request |-> [job_description |-> job,
                       candidates |-> SubSeq([i \in 1..Len(kinds) |-> CandidateOf(i, kinds[i])],
                                             1, Len(kinds))],
          analyses |-> SubSeq([i \in 1..Len(kinds) |-> AnalysisOf(i, kinds[i])],
                              1, Len(kinds))])

\* the batch requests; those without a job description have at most one
\* candidate
BatchCalls ==
    {BatchCall(JobText, kinds) : kinds \in ListsUpTo(CandidateKinds, MaxCandidates)}
    \cup {BatchCall(<<>>, kinds) : kinds \in ListsUpTo(CandidateKinds, 1)}

\* POST /analyze-candidates
AnalyzeCandidatesCall ==
    /\ callIn.fn = "analyze_candidates"
    /\ ReturnValue(analyze_candidates(callIn.arg.request, callIn.arg.analyses))

\* the uploads: a file that is no PDF, PDFs without text, with 99 and with
\* 100 characters; job descriptions that are empty, blank, of 49 and of 50
\* characters
UploadCalls ==
    {Call("analyze_resume_job",
          [filename |-> name, resume |-> pdf, job_description |-> job, analysis |-> analysis]) :
        name \in {<<"c","v",".","P","D","F">>, <<"c","v",".","t","x","t">>},
        pdf \in {NotPdf, Pdf(<<" ", "\n">>), Pdf(Filler(99)), Pdf(Filler(100) \o <<"\n", " ">>)},
        job \in {<<>>, <<" ", " ">>, Filler(49), <<" ">> \o Filler(50)},
        analysis \in {AnalyzeRaises, AnalyzeReturns([score |-> 60])}}

\* POST /analyze
AnalyzeResumeJobCall ==
    /\ callIn.fn = "analyze_resume_job"
    /\ ReturnValue(analyze_resume_job(callIn.arg.filename, callIn.arg.resume,
                                      callIn.arg.job_description, callIn.arg.analysis))

\* the ATS results, skill analyses and candidates the composite score is
\* computed for
CandidateScoreCalls ==
    {Call("calculate_candidate_score",
          [ats_score |-> ats, skills_analysis |-> skills, candidate |-> CandidateOf(i, "scored")]) :
        ats \in {EmptyDict} \cup {[score |-> s] : s \in {0, 1, 2, 50, 80, 100}}
                \cup {[overall_score |-> 1, score |-> 50]},
        skills \in {EmptyDict, [missing_skills |-> <<>>],
                    [matched_skills |-> <<EntryName(1)>>, skill_gaps |-> <<EntryName(2), EntryName(3)>>],
                    [matched_skills |-> <<EntryName(1)>>]},
        i \in 1..MaxCandidates}

\* calculate_candidate_score(ats_score, skills_analysis, candidate)
CandidateScoreCall ==
    /\ callIn.fn = "calculate_candidate_score"
    /\ ReturnValue(calculate_candidate_score(callIn.arg.ats_score, callIn.arg.skills_analysis,
                                             callIn.arg.candidate))

InitHttp ==
    /\ NoPipeline
    /\ callIn \in BatchCalls \cup UploadCalls \cup CandidateScoreCalls
    /\ callOut = NoResult

NextHttp ==
    \/ AnalyzeCandidatesCall
    \/ AnalyzeResumeJobCall
    \/ CandidateScoreCall

SpecHttp == InitHttp /\ [][NextHttp]_vars

(***************************************************************************)
(* Properties of analyze() and the ten-stage pipeline                      *)
(***************************************************************************)
\* the stages in the order the documentation numbers them
PipelineOrder ==
    <<"extract_job_requirements", "analyze_resume", "calculate_ats_score", "find_gaps",
      "analyze_repetitions", "generate_roadmap", "create_resources", "suggest_projects",
      "find_jobs", "prepare_interview">>

\* the AI-backed stages in pipeline order: the i-th response of a run went to
\* the i-th of them
AiStageOrder == SelectSeq(PipelineOrder, LAMBDA n : n \in AiNodes)

\* the entry a failed stage appends to errors
ErrorEntry ==
    [extract_job_requirements |-> "Job extraction error",
     analyze_resume |-> "Resume analysis error",
     generate_roadmap |-> "Roadmap error",
     suggest_projects |-> "Projects error",
     find_jobs |-> "Job matching error",
     prepare_interview |-> "Interview questions error"]

ReportKeys ==
    {"ats_score", "skills_analysis", "learning_roadmap", "resources", "projects",
     "jobs", "interview_questions", "errors"}

\* the state a finished run ended with
FinalState(r) == state[StateOf(r)]

Finished(r) == pc[r] \in {"returning", "done"}

\* C1: whatever the AI client does, analyze() returns a report with the keys
\* ats_score, skills_analysis (missing_skills, keyword_repetitions),
\* learning_roadmap, resources, projects, jobs, interview_questions and
\* errors, none of them null: no call ends without a report.
C1_ReportAlwaysComplete ==
    \A r \in Runs :
        /\ pc[r] = "aborted" => report[r] # NoReport
        /\ pc[r] = "done" =>
              /\ DOMAIN report[r] = ReportKeys
              /\ DOMAIN report[r].skills_analysis = {"missing_skills", "keyword_repetitions"}
              /\ \A k \in ReportKeys : report[r][k] # PyNone

\* C2: a failure inside a stage never ends the run: every run that started
\* goes on through the stages, and each stage that could not use the AI
\* response has appended its entry to errors and written its fallback.
C2_StageFailureNeverAborts ==
    \A r \in Runs :
        /\ pc[r] # "aborted"
        /\ pc[r] \in {"ready", "returning", "done"} =>
              \A i \in 1..Len(failed[r]) :
                  InList(ErrorEntry[failed[r][i]], FinalState(r)["errors"])

\* C3: an AI response that is valid JSON of the wrong shape (an array for an
\* object, null, entries that are no strings) is handled as a parse error:
\* the stage that received it falls back, and no later stage fails on it.
C3_WrongShapeTreatedAsParseError ==
    \A r \in Runs :
        \A i \in 1..Len(aiLog[r]) :
            aiLog[r][i].tag \in {"shape", "entries"} =>
                /\ pc[r] # "aborted"
                /\ InList(AiStageOrder[i], failed[r])

\* C4: errors holds exactly one entry for each stage that failed, in pipeline
\* order, and nothing else.
C4_OneErrorPerFailedStage ==
    \A r \in Runs :
        pc[r] \in {"ready", "returning", "done"} =>
            /\ FinalState(r)["errors"] =
                   [i \in 1..Len(failed[r]) |-> ErrorEntry[failed[r][i]]]
            /\ pc[r] = "done" => report[r].errors = FinalState(r)["errors"]

\* v is an empty list or an empty dict
StillEmpty(v) ==
    \/ v = EmptyList
    \/ v = EmptyDict
    \/ v = PyList(EmptyList)
    \/ v = PyDict(EmptyDict)

\* a run in which every AI call failed
AllAiFailed(r) ==
    /\ Len(aiLog[r]) = Len(AiStageOrder)
    /\ \A i \in 1..Len(aiLog[r]) : NoJson(aiLog[r][i])

\* C5 as stated: in the final state of every run, also one in which every AI
\* call failed, none of missing_skills, keyword_repetitions, ats_score,
\* learning_roadmap, resources, projects, jobs and interview_questions still
\* equals its initial empty value.
C5_NoOutputFieldEmpty ==
    \A r \in Runs :
        Finished(r) =>
            \A k \in {"missing_skills", "keyword_repetitions", "ats_score",
                      "learning_roadmap", "resources", "projects", "jobs",
                      "interview_questions"} :
                /\ FinalState(r)[k] # InitialState(request[r])[k]
                /\ ~StillEmpty(FinalState(r)[k])

\* the output field an AI-backed stage fills
FallbackField ==
    [generate_roadmap |-> "learning_roadmap", suggest_projects |-> "projects",
     find_jobs |-> "jobs", prepare_interview |-> "interview_questions"]

\* C5: in the final state of every run ats_score and keyword_repetitions are
\* filled, every field whose stage fell back holds a non-empty fallback
\* value, and missing_skills and resources are empty exactly when no job
\* skill is missing from the resume skills the gap stage saw.
C5_FallbackFieldsFilled ==
    \A r \in Runs :
        Finished(r) =>
            LET final == FinalState(r)
                seen == Get(ResumeAnalysisOf(final).val, "resume_skills", EmptyList)
            IN  /\ final["ats_score"] # EmptyDict
                /\ final["keyword_repetitions"] # EmptyDict
                /\ \A n \in DOMAIN FallbackField :
                       InList(n, failed[r]) => ~StillEmpty(final[FallbackField[n]])
                /\ final["missing_skills"] = EmptyList
                       <=> LowerSet(final["extracted_skills"]) \subseteq LowerSet(seen)
                /\ final["resources"] = PyDict(EmptyDict)
                       <=> final["missing_skills"] = EmptyList

\* every AI call of the run failed and the job names no known skill: the
\* run ends with missing_skills and resources empty
C5_Witness ==
    /\ pc[1] = "done"
    /\ AllAiFailed(1)
    /\ FinalState(1)["missing_skills"] = EmptyList
    /\ report[1].resources = PyDict(EmptyDict)
    /\ ~StillEmpty(report[1].projects)

\* C6: the ten stages run in the fixed order, none skipped or repeated, and
\* a stage starts on the state its predecessor's writes have produced.
C6_FixedStageOrder ==
    \A r \in Runs :
        /\ Len(started[r]) <= Len(PipelineOrder)
        /\ started[r] = SubSeq(PipelineOrder, 1, Len(started[r]))
        /\ Finished(r) => started[r] = PipelineOrder
        /\ pc[r] = "running" =>
              /\ node[r] = PipelineOrder[Len(started[r])]
              /\ local[r] = state[StateOf(r)]
        /\ pc[r] = "ready" => node[r] = PipelineOrder[Len(started[r]) + 1]

\* a run has gone through all ten stages and returned its report
C6_Witness ==
    /\ pc[1] = "done"
    /\ Len(started[1]) = 10
    /\ started[1][10] = "prepare_interview"

\* the field(s) each stage is the designated writer of
Writes ==
    [extract_job_requirements |-> {"extracted_keywords", "extracted_skills"},
     analyze_resume |-> {"resume_analysis"},
     calculate_ats_score |-> {"ats_score"},
     find_gaps |-> {"missing_skills"},
     analyze_repetitions |-> {"keyword_repetitions"},
     generate_roadmap |-> {"learning_roadmap"},
     create_resources |-> {"resources"},
     suggest_projects |-> {"projects"},
     find_jobs |-> {"jobs"},
     prepare_interview |-> {"interview_questions"}]

\* C7: each field is written by its one designated stage and keeps the value
\* through all later stages (resume_text and job_description never change
\* after initialization); errors is the only field several stages extend,
\* and it only grows at its end.
C7_SingleWriterFieldsKept ==
    [][\A r \in Runs :
          pc[r] = "running" /\ pc'[r] \in {"ready", "returning"} =>
              LET before == state[StateOf(r)]
                  after == state'[StateOf(r)]
              IN  /\ \A k \in SchemaKeys \ {"errors"} :
                         after[k] # before[k] => k \in Writes[node[r]]
                  /\ SubSeq(after["errors"], 1, Len(before["errors"])) = before["errors"]
                  /\ \A k \in Writes[node[r]] : k \in DOMAIN after]_vars

RECURSIVE SoloRun(_, _, _, _, _)
\* the state of a run that has the agent to itself after its first `stages`
\* stages: the stages applied one after the other to the run's own input
\* and AI responses
SoloRun(chan, n, log, order, stages) ==
    IF stages = 0 \/ n = END THEN chan
    ELSE LET resps == IF n \in AiNodes THEN log ELSE <<AiRaise>>
             res == NodeBody(n, chan, Head(resps), order)
         IN  SoloRun(ApplyWrites(chan, res.ret), NextNode(n),
                     IF n \in AiNodes THEN Tail(log) ELSE log, order, stages - 1)

SoloState(req, log, order, stages) ==
    SoloRun(ApplyWrites(FreshChannels, InitialState(req)), entry_point, log, order, stages)

\* C8: two runs that overlap on the one agent do not affect each other: after
\* each stage the state of a run is the one the run produces alone on the
\* same input and AI responses, and so is the report it returns.
C8_OverlappingRunsIndependent ==
    \A r \in Runs :
        LET solo == SoloState(request[r], aiLog[r], hashOrder[r], Len(started[r]))
        IN  /\ pc[r] \in {"ready", "returning"} => state[StateOf(r)] = solo
            /\ pc[r] = "done" => report[r] = Report(solo)

\* both calls are in flight at once, each through its ten stages, one of them
\* with failed AI calls, and what they are about to report differs
C8_Witness ==
    /\ pc[1] = "returning"
    /\ pc[2] = "returning"
    /\ failed[1] # <<>>
    /\ failed[2] = <<>>
    /\ Report(FinalState(1)) # Report(FinalState(2))

(***************************************************************************)
(* Properties of _calculate_ats_score                                      *)
(***************************************************************************)
\* C9: the score is an integer from 0 to 100 for every resume text and every
\* keyword and skill list, empty lists and lists with duplicates included.
C9_ScoreInRange ==
    (atsOut.called /\ ~atsOut.raised) => atsOut.ats_score.score \in 0..100

\* scored: empty job lists, and a job skill list with a duplicate
C9_Witness ==
    /\ atsOut.called
    /\ ~atsOut.raised
    /\ \/ atsIn["extracted_keywords"] = EmptyList /\ atsIn["extracted_skills"] = EmptyList
       \/ /\ Len(atsIn["extracted_skills"]) = MaxSkills
          /\ Cardinality(LowerSet(atsIn["extracted_skills"])) < MaxSkills
          /\ atsOut.ats_score.score > 90

\* the resume matches every job keyword and job skill, names the three
\* essential sections and uses at least ten action verbs
PerfectResume ==
    /\ atsIn["extracted_keywords"] # EmptyList
    /\ atsIn["extracted_skills"] # EmptyList
    /\ atsOut.ats_score.keyword_matches = Len(atsIn["extracted_keywords"])
    /\ atsOut.ats_score.skills_matches = Cardinality(LowerSet(atsIn["extracted_skills"]))
    /\ atsOut.ats_score.sections = Len(essential_sections)
    /\ atsOut.ats_score.verbs >= 10

\* C10: a perfect resume scores exactly 100.
C10_PerfectResumeScores100 ==
    (atsOut.called /\ ~atsOut.raised /\ PerfectResume) => atsOut.ats_score.score = 100

\* C11: the feedback text depends on the integer score alone: 80 and above
\* excellent, 70 to 79 good, 60 to 69 fair, below 60 needs improvement.
C11_FeedbackThresholds ==
    (atsOut.called /\ ~atsOut.raised) =>
        LET score == atsOut.ats_score.score
            text == atsOut.ats_score.feedback
        IN  /\ score >= 80 <=> text = "excellent"
            /\ (score >= 70 /\ score < 80) <=> text = "good"
            /\ (score >= 60 /\ score < 70) <=> text = "fair"
            /\ score < 60 <=> text = "needs improvement"

\* a score on a threshold: exactly 70, with the good text
C11_Witness ==
    /\ atsOut.called
    /\ atsOut.ats_score.score = 70
    /\ atsOut.ats_score.feedback = "good"

(***************************************************************************)
(* Properties of the skill gap and of the fallback paths                   *)
(***************************************************************************)
\* the resume analysis stage 2 of run r stored
ResumeAnalysisWritten(r) ==
    analyze_resume(FinalState(r), aiLog[r][2]).ret["resume_analysis"]

\* stage 4 of run r has written missing_skills
GapsWritten(r) ==
    \/ Len(started[r]) > 4
    \/ Len(started[r]) = 4 /\ pc[r] \in {"ready", "returning", "done"}

\* C12: missing_skills as stage 4 writes it has at most 8 entries and no
\* duplicates, every entry is a job skill with no case-insensitive equal
\* among the resume skills, and when at most 8 job skills are absent from
\* the resume all of them are listed.
C12_MissingSkillsAreTheGap ==
    \A r \in Runs :
        (GapsWritten(r) /\ ResumeAnalysisWritten(r).kind = "dict") =>
            LET missing_skills == FinalState(r)["missing_skills"]
                listed == {missing_skills[i] : i \in 1..Len(missing_skills)}
                job_skills == LowerSet(FinalState(r)["extracted_skills"])
                resume_skills ==
                    LowerSet(Get(ResumeAnalysisWritten(r).val, "resume_skills", EmptyList))
                absent == job_skills \ resume_skills
            IN  /\ Len(missing_skills) <= 8
                /\ Cardinality(listed) = Len(missing_skills)
                /\ \A i \in 1..Len(missing_skills) : Lower(missing_skills[i]) \in absent
                /\ Cardinality(absent) <= 8 => absent \subseteq listed

RECURSIVE FirstOccurrences(_)
\* xs without the later repeats of an entry
FirstOccurrences(xs) ==
    IF xs = <<>> THEN <<>>
    ELSE LET front == FirstOccurrences(SubSeq(xs, 1, Len(xs) - 1))
             last == xs[Len(xs)]
         IN  IF InList(last, front) THEN front ELSE Append(front, last)

\* C13: the entries of missing_skills keep the relative order they have in
\* extracted_skills, so the cap of 8 keeps the first absent job skills.
C13_MissingSkillsOrderStable ==
    \A r \in Runs :
        (GapsWritten(r) /\ AllStrings(FinalState(r)["extracted_skills"])) =>
            LET extracted_skills == FinalState(r)["extracted_skills"]
                job_skills == [i \in 1..Len(extracted_skills) |-> Lower(extracted_skills[i])]
                seen == LowerSet(Get(ResumeAnalysisOf(FinalState(r)).val,
                                     "resume_skills", EmptyList))
                absent == SelectSeq(FirstOccurrences(job_skills), LAMBDA x : x \notin seen)
            IN  FinalState(r)["missing_skills"] = Take(absent, 8)

(***************************************************************************)
(* Properties of the repetition stage and of the synonym lookup            *)
(***************************************************************************)
\* how often word w is among tokens
Occurrences(w, tokens) == Cardinality({i \in 1..Len(tokens) : tokens[i] = w})

\* C14: stage 5 flags a word exactly when it is a target word longer than 3
\* characters that occurs more than 2 times among the tokens; the status is
\* repetitions_found iff there is such a word, total_issues is the number
\* of keys of repetitions, and with no such word the result is
\* perfect_variety, 0 and an empty mapping.
C14_OverusedWordsFlagged ==
    (callOut.called /\ callIn.fn = "_analyze_keyword_repetitions") =>
        LET tokens == Tokens(Lower(callIn.arg))
            overused == {w \in target_words : Len(w) > 3 /\ Occurrences(w, tokens) > 2}
            result == callOut.value
        IN  /\ DOMAIN result.repetitions = overused
            /\ \A w \in overused : result.repetitions[w].count = Occurrences(w, tokens)
            /\ result.status = "repetitions_found" <=> overused # {}
            /\ result.status \in {"repetitions_found", "perfect_variety"}
            /\ result.total_issues = Cardinality(DOMAIN result.repetitions)
            /\ overused = {} =>
                   /\ result.status = "perfect_variety"
                   /\ result.total_issues = 0
                   /\ result.repetitions = EmptyDict

\* a resume with two overused words
C14_Witness ==
    /\ callOut.called
    /\ callIn.fn = "_analyze_keyword_repetitions"
    /\ callOut.value.status = "repetitions_found"
    /\ callOut.value.total_issues = 2

\* C15: the synonym list of a word has at most 8 entries, none equal to the
\* word itself whatever the case, and no entry twice; the curated synonyms
\* come first, and the lexical lookup adds entries only when the word has
\* fewer than 6 curated ones.
C15_SynonymListClean ==
    (callOut.called /\ callIn.fn = "_get_synonyms") =>
        LET word == callIn.arg.word
            synonyms == callOut.value
            curated == IF word \in DOMAIN tech_synonyms
                       THEN Take(tech_synonyms[word], 6) ELSE <<>>
        IN  /\ Len(synonyms) <= 8
            /\ \A i \in 1..Len(synonyms) : Lower(synonyms[i]) # Lower(word)
            /\ \A i, j \in 1..Len(synonyms) : synonyms[i] = synonyms[j] => i = j
            /\ Len(synonyms) >= Len(curated)
            /\ SubSeq(synonyms, 1, Len(curated)) = curated
            /\ Len(curated) >= 6 => synonyms = curated

\* C16: when every AI call fails, two independent runs of analyze() on the
\* same resume text and job description return the same ats_score, the same
\* missing_skills in the same order and the same keyword_repetitions.
C16_FallbackRunsAgree ==
    (/\ pc[1] = "done" /\ pc[2] = "done"
     /\ request[1] = request[2]
     /\ AllAiFailed(1) /\ AllAiFailed(2)) =>
        /\ report[1].ats_score = report[2].ats_score
        /\ report[1].skills_analysis.missing_skills
               = report[2].skills_analysis.missing_skills
        /\ report[1].skills_analysis.keyword_repetitions
               = report[2].skills_analysis.keyword_repetitions

(***************************************************************************)
(* Properties of generate_ats_resume                                       *)
(***************************************************************************)
\* generate_ats_resume has returned its document
Composed == callIn.fn = "generate_ats_resume" /\ callOut.called

\* the entries of a section of the document, none when the key is absent
SectionOf(doc, key) == Get(doc, key, <<>>)

\* C17: whatever the parsed resume holds, the document has at most 3
\* experience entries, 2 projects with at most 3 achievements each, 20
\* skills, 4 certifications, 3 awards, 5 languages, 3 volunteer entries and
\* 3 publications.
C17_SectionCaps ==
    Composed =>
        LET doc == callOut.value
            projects == SectionOf(doc, "projects")
        IN  /\ Len(SectionOf(doc, "Experience")) <= 3
            /\ Len(projects) <= 2
            /\ \A i \in 1..Len(projects) : Len(projects[i].achievements) <= 3
            /\ Len(SectionOf(doc, "skills")) <= 20
            /\ Len(SectionOf(doc, "certifications")) <= 4
            /\ Len(SectionOf(doc, "awards")) <= 3
            /\ Len(SectionOf(doc, "languages")) <= 5
            /\ Len(SectionOf(doc, "volunteer")) <= 3
            /\ Len(SectionOf(doc, "publications")) <= 3

\* a parsed resume with more entries in every section than any cap allows,
\* and more achievements per project: the document is full to the caps
C17_Witness ==
    /\ Composed
    /\ Len(callIn.arg.parsed_resume.skills) = MaxEntries
    /\ Len(callIn.arg.parsed_resume.projects[1].achievements) = MaxHighlights
    /\ Len(callOut.value.Experience) = 3
    /\ Len(callOut.value.projects) = 2
    /\ Len(callOut.value.projects[1].achievements) = 3
    /\ Len(callOut.value.skills) = 20
    /\ Len(callOut.value.certifications) = 4
    /\ Len(callOut.value.languages) = 5

\* the list sections of the document
ListSections ==
    {"Experience", "education", "skills", "projects", "certifications", "awards",
     "languages", "volunteer", "publications"}

\* C18: every list section of the document, education included, is capped
\* at a fixed number of entries; none grows with the number of entries of
\* the parsed resume. The largest cap of a section is the 20 of skills.
C18_EverySectionCapped ==
    Composed =>
        \A key \in ListSections : Len(SectionOf(callOut.value, key)) <= 20

\* the digit sequences of a text: its maximal runs of digits
DigitSequences(text) ==
    {SubSeq(text, p[1], p[2]) :
        p \in {q \in (1..Len(text)) \X (1..Len(text)) :
                  /\ q[1] <= q[2]
                  /\ \A l \in q[1]..q[2] : text[l] \in Digits
                  /\ (q[1] = 1 \/ text[q[1] - 1] \notin Digits)
                  /\ (q[2] = Len(text) \/ text[q[2] + 1] \notin Digits)}}

\* C19: for every response of the AI, every digit sequence of the workSummery
\* of an entry of the document occurs in the description or in an
\* achievement of the parsed entry it was made from.
C19_NoNewNumbers ==
    Composed =>
        LET entries == SectionOf(callOut.value, "Experience")
        IN  \A i \in 1..Len(entries) :
                LET exp == callIn.arg.parsed_resume.experience[i]
                    originals == {exp.description} \cup
                                 {exp.achievements[k] : k \in 1..Len(exp.achievements)}
                IN  \A digits \in DigitSequences(entries[i].workSummery) :
                        \E original \in originals : IsSubstring(digits, original)

(***************************************************************************)
(* Properties of the response cleaning                                     *)
(***************************************************************************)
\* a text with no markdown syntax at all: no backquote, star or underscore,
\* no bracket, no special mark, and no line that starts with #, with a list
\* marker or with a number
PlainProse(text) ==
    /\ \A i \in 1..Len(text) :
           text[i] \notin {Backtick, "*", "_", "[", "]"} \cup SpecialMarks
    /\ \A i \in 1..Len(text) :
           (i = 1 \/ text[i - 1] = "\n") =>
               LET mark == i + RunLength(text, Whitespace, i)
               IN  mark > Len(text) \/ text[mark] \notin {"#", "-", "+"} \cup Digits

\* the content of a text: its characters other than white space
ContentOf(text) == SelectSeq(text, LAMBDA c : c \notin Whitespace)

\* C20: for every text, cleaning the cleaned text again changes nothing, for
\* _clean_ai_content and for _clean_text_content alike, and a text with no
\* markdown syntax comes back with its content unaltered.
C20_CleaningIdempotent ==
    (callOut.called /\ callIn.fn \in {"_clean_ai_content", "_clean_text_content"}) =>
        /\ callIn.fn = "_clean_ai_content" =>
               clean_ai_content(callOut.value) = callOut.value
        /\ callIn.fn = "_clean_text_content" =>
               clean_text_content(callOut.value) = callOut.value
        /\ PlainProse(callIn.arg) => ContentOf(callOut.value) = ContentOf(callIn.arg)

\* C25: at every place that parses an AI response as JSON, the text handed
\* to the parser is a part of the response, and every # and * of the
\* response is still in it: only fences and white space are removed.
C25_OnlyFencesRemoved ==
    (callOut.called /\ callIn.fn = "json.loads") =>
        LET Marks(text) == SelectSeq(text, LAMBDA c : c \in {"#", "*"})
        IN  /\ IsSubstring(callOut.value, callIn.arg.response)
            /\ Marks(callOut.value) = Marks(callIn.arg.response)

\* C26: stage 7 writes a resources mapping whose keys are exactly the first
\* min(5, n) of the n missing skills, each with a non-empty list; a missing
\* skill that is a key of the curated table gets the list stored under that
\* key, every other skill gets the three generic resources.
C26_CuratedOrGenericForTopFive ==
    (callOut.called /\ callIn.fn = "_create_resources") =>
        LET top == Take(callIn.arg, 5)
            resources == callOut.value.ret["resources"]
        IN  /\ ~callOut.value.raised
            /\ resources.kind = "dict"
            /\ DOMAIN resources.val = {top[i] : i \in 1..Len(top)}
            /\ Cardinality(DOMAIN resources.val) = Min(5, Len(callIn.arg))
            /\ \A skill \in DOMAIN resources.val :
                   /\ resources.val[skill].count > 0
                   /\ IF InList(skill, resource_map_keys)
                      THEN /\ resources.val[skill].source = "curated"
                           /\ resources.val[skill].entry = skill
                      ELSE /\ resources.val[skill].source = "generic"
                           /\ resources.val[skill].count = 3

\* C30: stages 3 and 4 split the job skills the same way: the number of
\* skills stage 3 counts as matched plus the number of job skills absent from
\* the resume skills (of which missing_skills keeps at most 8) is the number
\* of distinct lower-cased job skills, and no skill of missing_skills is one
\* that stage 3 counted as matched.
C30_MatchedAndMissingPartition ==
    (callOut.called /\ callIn.fn = "_calculate_ats_score, _find_gaps") =>
        LET final == callOut.value.ret
            missing_skills == final["missing_skills"]
            matched == final["ats_score"].skills_matches
            distinct == Cardinality(LowerSet(callIn.arg.extracted_skills))
        IN  /\ ~callOut.value.raised
            /\ IF distinct - matched <= 8
               THEN matched + Len(missing_skills) = distinct
               ELSE Len(missing_skills) = 8
            /\ \A i \in 1..Len(missing_skills) :
                   /\ missing_skills[i] \in LowerSet(callIn.arg.extracted_skills)
                   /\ missing_skills[i] \notin LowerSet(callIn.arg.resume_skills)
                   /\ \A j \in 1..Len(missing_skills) :
                          missing_skills[i] = missing_skills[j] => i = j

\* a job names a skill twice in two cases, the resume has one job skill and
\* lacks another
C30_Witness ==
    /\ callOut.called
    /\ callIn.fn = "_calculate_ats_score, _find_gaps"
    /\ callOut.value.ret["ats_score"].skills_matches > 0
    /\ Len(callOut.value.ret["missing_skills"]) > 0
    /\ Len(callIn.arg.extracted_skills) >
          Cardinality(LowerSet(callIn.arg.extracted_skills))

\* a value of the parsed resume that is empty or stands in the resume text
FromText(value, text) == value = <<>> \/ IsSubstring(value, text)

\* C29: the fallback parse returns only what the resume text holds: every
\* personal-info value and the summary is empty or a part of the text, an
\* education entry is there only if the text matches the degree pattern and
\* has its dates from the text, and a project is there only if the text
\* names it.
C29_FallbackOnlyFromText ==
    (callOut.called /\ callIn.fn = "_comprehensive_fallback_parsing") =>
        LET text == callIn.arg
            parsed == callOut.value
        IN  /\ \A k \in DOMAIN parsed.personalInfo : FromText(parsed.personalInfo[k], text)
            /\ FromText(parsed.summary, text)
            /\ \A i \in 1..Len(parsed.education) :
                   /\ re_search(edu_regex, text).found
                   /\ FromText(parsed.education[i].startDate, text)
                   /\ FromText(parsed.education[i].endDate, text)
            /\ \A i \in 1..Len(parsed.projects) :
                   IsSubstring(Lower(SubSeq(parsed.projects[i].name, 1, 4)), Lower(text))

(***************************************************************************)
(* Properties of the HTTP layer                                            *)
(***************************************************************************)
\* C21: on both entry paths, the /analyze endpoint and the batch endpoint,
\* analyze() is never started with a resume text or a job description that
\* is empty or only white space.
C21_InputValidatedBeforeAnalyze ==
    (callOut.called /\ callIn.fn \in {"analyze_resume_job", "analyze_candidates"}) =>
        \A i \in 1..Len(callOut.value.started) :
            /\ Strip(callOut.value.started[i].resume_text) # <<>>
            /\ Strip(callOut.value.started[i].job_description) # <<>>

\* C27: a candidate whose resume cannot be decoded, read or analysed never
\* aborts the batch: it is kept with the score 0.3, analyze() still runs for
\* every other candidate, and the response lists at most 5 candidates of
\* the request in non-increasing order of score.
C27_BatchSurvivesFailures ==
    (callOut.called /\ callIn.fn = "analyze_candidates") =>
        LET candidates == callIn.arg.request.candidates
            analyses == callIn.arg.analyses
            top == callOut.value.top_candidates
            Text(k) == extract_text_from_pdf(candidates[k].resumeBase64)
            Readable(k) == ~Text(k).raises /\ Strip(Text(k).text) # <<>>
            Failed(k) == ~Readable(k) \/ analyses[k].raises
        IN  /\ callOut.value.status = 200
            /\ callOut.value.analyzed = Len(candidates)
            /\ Len(callOut.value.started)
                   = Cardinality({k \in 1..Len(candidates) : Readable(k)})
            /\ Len(top) <= 5
            /\ \A i \in 1..(Len(top) - 1) : ~Less(top[i].score, top[i + 1].score)
            /\ \A i \in 1..Len(top) :
                   \E k \in 1..Len(candidates) :
                       /\ candidates[k].id = top[i]._id
                       /\ Failed(k) => top[i].score = Fraction(3, 10)

\* C28: the composite score lies in [0, 1]; the ATS score s in 0..100 adds
\* at most 0.40 to it, so with the same skills analysis and the same
\* candidate every other ATS score gives another composite score.
C28_CompositeScoreWeights ==
    (/\ callOut.called /\ callIn.fn = "calculate_candidate_score"
     /\ DOMAIN callIn.arg.ats_score = {"score"}) =>
        LET Composite(ats_score) ==
                calculate_candidate_score(ats_score, callIn.arg.skills_analysis,
                                          callIn.arg.candidate)
            without == Composite(EmptyDict)
            score == callOut.value
        IN  /\ score.num >= 0 /\ score.num <= score.den
            /\ 100 * (score.num - without.num) <= 40 * score.den
            /\ \A s \in 0..100 :
                   s # callIn.arg.ats_score.score => Composite([score |-> s]) # score

(***************************************************************************)
(* Properties of the later stages                                          *)
(***************************************************************************)
\* C22: the report of a finished run holds between 12 and 15 interview
\* questions, whether they come from the AI or from the fallback generator.
C22_TwelveToFifteenQuestions ==
    \A r \in Runs :
        pc[r] = "done" =>
            /\ report[r].interview_questions.kind = "list"
            /\ Len(report[r].interview_questions.val) >= 12
            /\ Len(report[r].interview_questions.val) <= 15

\* stage k of run r has returned and its result is stored
StageDone(r, k) ==
    \/ Len(started[r]) > k
    \/ Len(started[r]) = k /\ pc[r] \in {"ready", "returning", "done"}

\* C23: the resume analysis stage 2 wrote is what every later stage reads:
\* it is never lost or replaced by an empty mapping, and stage 3 counts a
\* match whenever a job skill equals a resume skill of stage 2, whatever
\* the case.
C23_ResumeAnalysisKept ==
    \A r \in Runs :
        (StageDone(r, 2) /\ ResumeAnalysisWritten(r).kind = "dict") =>
            /\ ResumeAnalysisOf(FinalState(r)) = ResumeAnalysisWritten(r)
            /\ (/\ StageDone(r, 3)
                /\ LowerSet(FinalState(r)["extracted_skills"])
                       \cap LowerSet(Get(ResumeAnalysisWritten(r).val, "resume_skills",
                                         EmptyList)) # {})
                   => FinalState(r)["ats_score"].skills_matches > 0

\* the AI gave nothing usable to an enhancement prompt: the call raised, or
\* the stripped answer has fewer than 20 characters
EnhancementFailed == callIn.arg.response.raises \/ Len(Strip(callIn.arg.response.content)) < 20

\* C24: when the AI gives nothing usable, the summary of the document is the
\* original summary unchanged, and the workSummery of every experience
\* entry is the original description followed by the bulleted achievements,
\* with <br> for every line break and nothing else added.
C24_NoOpFallback ==
    (Composed /\ EnhancementFailed) =>
        LET parsed == callIn.arg.parsed_resume
            entries == SectionOf(callOut.value, "Experience")
            br == <<"<", "b", "r", ">">>
        IN  /\ Strip(parsed.summary) # <<>> => callOut.value.summary = parsed.summary
            /\ \A i \in 1..Len(entries) :
                   LET exp == parsed.experience[i]
                       bullets == SubSeq([k \in 1..Len(exp.achievements) |->
                                            <<Bullet, " ">> \o exp.achievements[k]],
                                         1, Len(exp.achievements))
                   IN  entries[i].workSummery =
                           IF exp.achievements = <<>> THEN exp.description
                           ELSE exp.description \o br \o br \o JoinWith(br, bullets)

\* the AI answered with two characters for a resume with a summary and with
\* experience entries, one of them with an achievement
C24_Witness ==
    /\ Composed
    /\ Len(callIn.arg.parsed_resume.experience) > 3
    /\ ~callIn.arg.response.raises
    /\ Len(callIn.arg.response.content) = 2
    /\ callOut.value.summary = callIn.arg.parsed_resume.summary
    /\ Len(callOut.value.Experience) = 3
    /\ Len(callOut.value.Experience[1].workSummery)
           > Len(callIn.arg.parsed_resume.experience[1].description)

====
